---- MODULE Spec2Model ----
(***************************************************************************)
(* polarway-lakehouse: DeltaStore (src/polarway-lakehouse/src/store.rs)    *)
(* over one Delta table.                                                   *)
(*                                                                         *)
(* DeltaStore holds no state of its own (store.rs:79-81): every operation  *)
(* opens the table, works on the snapshot it loaded and, for a write,      *)
(* publishes one commit entry.  The state of the program is therefore the  *)
(* table directory (the commit log and the data files) plus, for every     *)
(* task that is inside a store call, the locals of that call.  The calls   *)
(* are async fns with an await between their steps, so steps of different  *)
(* tasks interleave; one action below is one such step.                    *)
(*                                                                         *)
(* The deltalake calls made by store.rs are modelled by what the library   *)
(* does at that call: a commit is a put-if-absent of the log object of     *)
(* version base+1, retried after a conflict check when that object already *)
(* exists; a snapshot is the replay of the log; vacuum (default mode)      *)
(* deletes tombstoned files whose deletion timestamp is past the retention *)
(* horizon.                                                                *)
(***************************************************************************)
EXTENDS Integers, FiniteSets, Sequences, TLC

\* ---------------------------------------------------------------- bounds
\* Number of commits after the creation commit that the model explores.
MaxVersion == 3
\* Number of data files ever written to the table directory.
MaxFiles == 3
\* Number of times the clock advances.
MaxTicks == 2
\* Attempts of the commit loop before it gives up.
MaxCommitAttempts == 2

\* The tasks that call the store concurrently (Arc<DeltaStore>, store.rs:78).
Tasks == {"t1", "t2"}

\* Row values: the user_id of a row.  A predicate "user_id = 'x'" is the
\* set of row values it selects.
Vals == {"u1", "u2"}
Preds == {{"u1"}, {"u2"}}

\* A row multiset is a function from row values to multiplicities.
EmptyRows == [v \in Vals |-> 0]
Batches == {[v \in Vals |-> IF v = "u1" THEN 1 ELSE 0],
            [v \in Vals |-> 1]}

\* vacuum_retention_hours of LakehouseConfig::new.
vacuum_retention_hours == 168
\* The table's deletedFileRetentionDuration (one week), the least retention
\* vacuum accepts while retention enforcement is on.
MinRetentionHours == 7 * 24
\* The clock is in hours and is looked at once a week.
ClockStep == 7 * 24
MaxClock == MaxTicks * ClockStep
\* vacuum calls tried: (retention_hours, dry_run) of gdpr_delete_user
\* (store.rs:567), of test_compact_and_vacuum, of a configured retention below
\* the table's minimum (config.rs:106) and of the maintenance scheduler.
VacuumCalls == {<<0, FALSE>>, <<0, TRUE>>, <<24, FALSE>>,
                <<vacuum_retention_hours, FALSE>>}

VARIABLES
    log,        \* _delta_log: version -> commit entry, for the versions present
    written,    \* data file id -> the rows the file was written with
    objects,    \* ids of the data files present in the table directory
    now,        \* wall clock, hours
    task,       \* task -> locals of the store call the task is in
    modified,   \* version -> last-modified time of its log object
    users,      \* rows of the users table, in scan order
    sessions,   \* rows of the sessions table
    audit,      \* rows of the audit_log table (the user_id of each event)
    uuid,       \* number of user ids generated so far
    mailbox,    \* actor -> messages sent to the actor and not yet received
    actor,      \* actor -> the message the actor handles and where it is
    client,     \* handle -> whether a call through the handle awaits its reply
    last,       \* the reply sent last
    maint,      \* maintenance task -> the store call the task is in
    seen        \* what callers were told: passwords set, tokens issued, revoked

\* The table directory of the table modelled file by file, and the state of
\* the actors and of the tables they use, modelled row by row.
store_vars == <<log, written, objects, task, modified>>
actors == <<users, sessions, audit, uuid, mailbox, actor, client, last, maint, seen>>

vars == <<log, written, objects, now, task, modified, users, sessions, audit,
          uuid, mailbox, actor, client, last, maint, seen>>

\* ------------------------------------------------------------- row bags
RECURSIVE SumRows(_, _)
SumRows(F, w) ==
    IF F = {} THEN EmptyRows
    ELSE LET f == CHOOSE x \in F : TRUE
             rest == SumRows(F \ {f}, w)
         IN  [v \in Vals |-> w[f][v] + rest[v]]

Matching(rows, p) == [v \in Vals |-> IF v \in p THEN rows[v] ELSE 0]
Kept(rows, p) == [v \in Vals |-> IF v \in p THEN 0 ELSE rows[v]]

RECURSIVE CountOver(_, _)
CountOver(rows, S) ==
    IF S = {} THEN 0
    ELSE LET v == CHOOSE x \in S : TRUE
         IN  rows[v] + CountOver(rows, S \ {v})
Count(rows) == CountOver(rows, Vals)

\* ------------------------------------------------------------ table log
Max(S) == CHOOSE x \in S : \A y \in S : y <= x

\* open_table: the latest version of the log.
read_head == Max(DOMAIN log)

\* The file-set of version V: the log replayed from 0 to V, each commit's
\* removes taken out and its adds put in.
RECURSIVE Replay(_, _)
Replay(l, V) ==
    IF V < 0 THEN {}
    ELSE LET before == Replay(l, V - 1)
         IN  IF V \in DOMAIN l
             THEN (before \ l[V].removes) \cup l[V].adds
             ELSE before

LiveFiles(V) == Replay(log, V)

\* Files with a remove action in the log up to V, and the deletion
\* timestamp of the remove action of file f: the actions of a commit are
\* stamped together, when the commit is prepared.
Tombstones(V) == UNION {log[v].removes : v \in {x \in DOMAIN log : x <= V}}
DeletionTimestamp(f) ==
    LET v == CHOOSE x \in DOMAIN log : f \in log[x].removes
    IN  log[v].ts

\* The rows a reader of version V gets when every file is readable.
RowsAt(V) == SumRows(LiveFiles(V), written)

Entry(op, ts, adds, removes, pred, ndel) ==
    [op |-> op, ts |-> ts, adds |-> adds,
     removes |-> removes, pred |-> pred, ndel |-> ndel]

CreateEntry == Entry("create", 0, {}, {}, {}, 0)

\* ----------------------------------------------------------- task locals
Idle ==
    [pc |-> "idle", op |-> "none", start |-> 0, base |-> 0, batch |-> EmptyRows,
     pred |-> {}, want |-> 0, at |-> 0, retention |-> 0, dry_run |-> FALSE,
     files |-> {}, adds |-> {}, removes |-> {}, ts |-> 0, ndel |-> 0,
     ok |-> FALSE, err |-> "none", version |-> 0, rows |-> EmptyRows, count |-> 0,
     versions |-> <<>>, gdpr |-> FALSE, tries |-> 0]

Done(r, version, rows, count) ==
    [Idle EXCEPT !.pc = "done", !.op = r.op, !.start = r.start, !.batch = r.batch,
                 !.pred = r.pred, !.want = r.want, !.at = r.at,
                 !.retention = r.retention,
                 !.dry_run = r.dry_run, !.adds = r.adds, !.removes = r.removes,
                 !.ok = TRUE, !.version = version, !.rows = rows, !.count = count,
                 !.gdpr = r.gdpr, !.tries = r.tries]

Failed(r, err) ==
    [Idle EXCEPT !.pc = "done", !.op = r.op, !.start = r.start, !.batch = r.batch,
                 !.pred = r.pred, !.want = r.want, !.at = r.at,
                 !.retention = r.retention,
                 !.dry_run = r.dry_run, !.err = err, !.gdpr = r.gdpr,
                 !.tries = r.tries]

\* A fresh file id (the writer names files by uuid).
NextFile == Len(written) + 1

\* ---------------------------------------------------- actors: the data
\* The actors (auth/actor.rs, audit/actor.rs), the cloned handles that send
\* to them, and the tasks of the maintenance scheduler
\* (MaintenanceScheduler::start, maintenance.rs:41-48).  Rewriters are the
\* tasks whose calls commit to a table; the vacuum task commits nothing (at
\* the level of files it is the vacuum_open of NextConfigured).  Callers adds
\* the task that calls MaintenanceScheduler::run_once.
Actors == {"auth", "audit"}
Clients == {"c1", "c2"}
MaintTasks == {"session_cleanup", "compaction", "z_order", "vacuum"}
Rewriters == {"session_cleanup", "compaction", "z_order"}
Callers == MaintTasks \cup {"run_once"}

\* schema::all_tables, in its order.
all_tables == <<"users", "sessions", "audit_log", "user_actions">>

\* Capacity of a mailbox in the model (mpsc::channel(256), channel(512)).
MailboxCap == 2
\* Number of AuditHandle::log calls a behaviour makes when the calls are
\* counted: enough to fill the mailbox behind a busy actor and one more.
MaxLogs == MailboxCap + 2
\* Number of user ids generated, and of audit events kept.
MaxUsers == 2
\* Number of logins made when the scheduler runs next to the auth actor.
MaxSessions == 2
MaxAudit == 1

Tiers == {"free", "pioneer"}

\* The strings of the model.  QuotedName and QuotedId hold a single quote,
\* which no handler rejects or escapes.
QuotedName == "bob' OR '1'='2"
QuotedId == "u9' OR '1'='1"
Usernames == {"al", "alice", "bob", QuotedName}
\* The ids Uuid::new_v4 returns, in the order of the calls.
UserIds == <<"u1", "u2", "u3", "u4">>

\* str::len of the strings the handlers measure.
len(s) ==
    CASE s = "al" -> 2
      [] s = "bob" -> 3
      [] s = "alice" -> 5
      [] s = "short" -> 5
      [] s = "NewP@ssw0rd!" -> 12
      [] s = "StrongP@ss123" -> 13
      [] s = QuotedName -> 14
\* email.contains('@')
contains_at(email) == email # "alice.example.com"

\* What the WHERE clause  column = '{value}'  selects once format! has put
\* the value between the quotes and DataFusion has parsed the text: the
\* literal compared with the column, and whether an OR branch that holds
\* for every row follows it.  A value without a quote is its own literal.
sql_where(value) ==
    CASE value = QuotedName -> [literal |-> "bob", or_true |-> FALSE]
      [] value = QuotedId -> [literal |-> "u9", or_true |-> TRUE]
      [] OTHER -> [literal |-> value, or_true |-> FALSE]
Selects(row, column, value) ==
    row[column] = sql_where(value).literal \/ sql_where(value).or_true

\* session_expiry_days of LakehouseConfig::new and the days of a
\* remember_me login, in hours.
session_expiry_days == 7
ExpiryHours(remember_me) ==
    IF remember_me THEN 30 * 24 ELSE session_expiry_days * 24

\* Argon2 hash_password and verify_password.  A stored hash is a string in
\* PHC format, which PasswordHash::new parses; the salt plays no part here.
hash_password(password) == [alg |-> "argon2", password |-> password]
\* The string handle_approve stores in the password_hash column.
APPROVED_USER == [alg |-> "none", password |-> "APPROVED_USER"]
PasswordHash_new(stored_hash) == stored_hash.alg = "argon2"
verify_password(password, parsed_hash) == parsed_hash.password = password

\* SubscriptionTier::default_role.
default_role(tier) == IF tier = "free" THEN "registered" ELSE "trader"

\* A row of the users table (the columns the handlers use) and the
\* UserRecord that extract_user_from_batch makes of it.
UserRow(user_id, username, email, password_hash, role, tier) ==
    [user_id |-> user_id, username |-> username, email |-> email,
     password_hash |-> password_hash, role |-> role, tier |-> tier]
NoUser == [user_id |-> "", username |-> "", email |-> "", role |-> "guest",
           tier |-> "free"]
extract_user_from_batch(row) ==
    [user_id |-> row.user_id, username |-> row.username, email |-> row.email,
     role |-> row.role, tier |-> row.tier]

\* store.query(table, "column = '{value}'"): the rows selected, in scan
\* order.
query(table, column, value) ==
    SelectSeq(table, LAMBDA row : Selects(row, column, value))

\* jsonwebtoken encode of JwtClaims {sub, username, role, exp, iat} with the
\* actor's secret: the token is a function of the claims.  GarbageToken is a
\* string that does not decode.
encode(user, iat, exp) ==
    [sub |-> user.user_id, username |-> user.username, role |-> user.role,
     exp |-> exp, iat |-> iat]
GarbageToken == [sub |-> "", username |-> "", role |-> "", exp |-> 0, iat |-> -1]
\* decode with Validation::default: the signature holds and exp is not past.
decode(token, clock) == token # GarbageToken /\ token.exp >= clock
\* Sha256 of the token, in hex.
token_hash(token) == <<"sha256", token>>

\* Messages (AuthMsg, AuditMsg) and replies.
Msg(kind, from) ==
    [kind |-> kind, from |-> from, username |-> "", email |-> "", password |-> "",
     new_password |-> "", tier |-> "free", user_id |-> "", token |-> GarbageToken,
     remember_me |-> FALSE, action |-> "Login", seq |-> 0,
     start_date |-> 0, end_date |-> 0]
NoMsg == Msg("none", "none")

Reply(m, ok, err, user, token, rows) ==
    [ok |-> ok, err |-> err, user |-> user, token |-> token, rows |-> rows,
     msg |-> m]
NoReply == Reply(NoMsg, FALSE, "none", NoUser, GarbageToken, <<>>)

\* An actor between two messages, and a maintenance task between two ticks.
NoRow == UserRow("", "", "", APPROVED_USER, "guest", "free")
ActorIdle ==
    [pc |-> <<"idle", "none">>, msg |-> NoMsg, user |-> NoUser, row |-> NoRow,
     token |-> GarbageToken, reads |-> FALSE, conflict |-> FALSE]
\* Of a maintenance task that is traced, the model keeps the store calls it
\* has made since its last tick (calls) and whether one of them failed.
\* abort is the state of the task's JoinHandle: "none" until abort() is
\* called on it, "requested" when abort() was called while a worker thread
\* was polling the task, "done" when the task's future has been dropped.
MaintIdle == [pc |-> <<"idle", "none">>, cutoff |-> 0, reads |-> FALSE,
              conflict |-> FALSE, traced |-> FALSE, calls |-> <<>>,
              failed |-> FALSE, abort |-> "none"]

\* What the clients have been given so far: tokens, passwords that were
\* set, and the number of log calls that were enqueued.
NothingSeen ==
    [live |-> {}, revoked |-> {}, password |-> [u \in Usernames |-> ""],
     sent |-> 0]

InitActors ==
    /\ users = <<>>
    /\ sessions = {}
    /\ audit = <<>>
    /\ uuid = 0
    /\ mailbox = [a \in Actors |-> <<>>]
    /\ actor = [a \in Actors |-> ActorIdle]
    /\ client = [c \in Clients |-> "idle"]
    /\ last = NoReply
    /\ maint = [p \in Callers |-> MaintIdle]
    /\ seen = NothingSeen

\* The last-modified times of the log objects are read by
\* load_with_datetime only.  They are recorded from the creation of the
\* table on; a behaviour that starts with Unrecorded leaves them out.
Unrecorded == [v \in {} |-> 0]
Stamp(v) == IF modified = Unrecorded THEN modified ELSE (v :> now) @@ modified

InitTable ==
    /\ log = (0 :> CreateEntry)
    /\ written = <<>>
    /\ objects = {}
    /\ now = 0
    /\ task = [t \in Tasks |-> Idle]
    /\ InitActors

Init == InitTable /\ modified = Unrecorded

InitTimeTravel == InitTable /\ modified = (0 :> 0)

\* ---------------------------------------------------------- ensure_table
\* The table directory before DeltaStore::new has run: no log, no files.
NoLog == [v \in {} |-> CreateEntry]

InitEmpty ==
    /\ log = NoLog
    /\ written = <<>>
    /\ objects = {}
    /\ now = 0
    /\ task = [t \in Tasks |-> Idle]
    /\ modified = [v \in {} |-> 0]
    /\ InitActors

TableExists == DOMAIN log # {}

\* ensure_table, store.rs:136-140: open_table; a table that opens is left as
\* it is.
ensure_open(t) ==
    /\ task[t].pc = "idle"
    /\ task' = [task EXCEPT ![t] =
                    IF TableExists
                    THEN Done([Idle EXCEPT !.op = "ensure_table"],
                              read_head, EmptyRows, 0)
                    ELSE [Idle EXCEPT !.pc = "creating", !.op = "ensure_table"]]
    /\ UNCHANGED <<log, written, objects, now, modified>>
    /\ UNCHANGED actors

\* ensure_table, store.rs:143-155: the create builder with SaveMode::Ignore
\* looks for a table at the location and returns it when there is one.
ensure_check(t) ==
    /\ task[t].pc = "creating"
    /\ task' = [task EXCEPT ![t] =
                    IF TableExists
                    THEN Done(task[t], read_head, EmptyRows, 0)
                    ELSE [task[t] EXCEPT !.pc = "create_commit"]]
    /\ UNCHANGED <<log, written, objects, now, modified>>
    /\ UNCHANGED actors

\* Variant of ensure_commit that writes version 0 with a plain put.
ensure_commit_put(t) ==
    /\ task[t].pc = "create_commit"
    /\ log' = (0 :> CreateEntry)
    /\ modified' = (0 :> now)
    /\ task' = [task EXCEPT ![t] = Done(task[t], 0, EmptyRows, 0)]
    /\ UNCHANGED <<written, objects, now>>
    /\ UNCHANGED actors

\* ensure_table, store.rs:155: the create commit, a put-if-absent of version
\* 0 that records the schema and the partition columns and adds no file.
ensure_commit(t) ==
    /\ task[t].pc = "create_commit"
    /\ IF ~TableExists
       THEN /\ log' = (0 :> CreateEntry)
            /\ modified' = (0 :> now)
            /\ task' = [task EXCEPT ![t] = Done(task[t], 0, EmptyRows, 0)]
       ELSE /\ UNCHANGED <<log, modified>>
            /\ task' = [task EXCEPT ![t] = Failed(task[t], "DeltaTable")]
    /\ UNCHANGED <<written, objects, now>>
    /\ UNCHANGED actors

\* ---------------------------------------------------------------- append
\* append, store.rs:170: open_table loads the snapshot at the head.
append_open(t, batch) ==
    /\ task[t].pc = "idle"
    /\ task' = [task EXCEPT ![t] = [Idle EXCEPT !.pc = "opened", !.op = "append",
                                                !.start = read_head, !.base = read_head,
                                                !.batch = batch]]
    /\ UNCHANGED <<log, written, objects, now, modified>>
    /\ UNCHANGED actors

\* Variant of append_write that writes in overwrite mode: the commit also
\* removes every file of the snapshot.
append_write_overwrite(t) ==
    /\ task[t].pc = "opened" /\ task[t].op = "append"
    /\ NextFile <= MaxFiles
    /\ written' = Append(written, task[t].batch)
    /\ objects' = objects \cup {NextFile}
    /\ task' = [task EXCEPT ![t].pc = "prepared", ![t].adds = {NextFile},
                             ![t].removes = LiveFiles(task[t].base),
                             ![t].ts = now]
    /\ UNCHANGED <<log, now, modified>>
    /\ UNCHANGED actors

\* append, store.rs:172-174: write + the flush of flush_and_commit put the
\* batch into one new data file, which nothing references yet, and prepare
\* the commit, stamped with the clock.
append_write(t) ==
    /\ task[t].pc = "opened" /\ task[t].op = "append"
    /\ NextFile <= MaxFiles
    /\ written' = Append(written, task[t].batch)
    /\ objects' = objects \cup {NextFile}
    /\ task' = [task EXCEPT ![t].pc = "prepared", ![t].adds = {NextFile},
                             ![t].ts = now]
    /\ UNCHANGED <<log, now, modified>>
    /\ UNCHANGED actors

\* ---------------------------------------------------------------- commit
\* The commits that won the race: the versions published since the snapshot
\* the task prepared its actions on.
Winners(r) == {v \in DOMAIN log : v > r.base}

\* Variant of Conflicts in which an optimize is never in conflict.
Conflicts_optimize_blind(r) ==
    CASE r.op = "append" -> FALSE
      [] r.op = "delete" ->
            \E v \in Winners(r) :
                \/ log[v].removes \cap r.files # {}
                \/ \E f \in log[v].adds : Count(Matching(written[f], r.pred)) > 0
      [] OTHER -> FALSE

\* Variant of Conflicts in which only a winner that added matching rows is in
\* conflict with a delete: the files the delete read are not compared.
Conflicts_adds_only(r) ==
    CASE r.op = "append" -> FALSE
      [] r.op = "delete" ->
            \E v \in Winners(r) :
                \E f \in log[v].adds : Count(Matching(written[f], r.pred)) > 0
      [] OTHER ->
            \E v \in Winners(r) : log[v].removes \cap r.removes # {}

\* Variant of Conflicts in which a delete is only compared with the files
\* the winners removed, not with the rows they added.
Conflicts_removes_only(r) ==
    CASE r.op = "append" -> FALSE
      [] r.op = "delete" ->
            \E v \in Winners(r) : log[v].removes \cap r.files # {}
      [] OTHER ->
            \E v \in Winners(r) : log[v].removes \cap r.removes # {}

\* The conflict check made before a retry.  A blind append reads nothing and
\* never conflicts.  A delete conflicts with a winner that removed a file it
\* read or added a file holding rows its predicate selects.  An optimize
\* (data_change = false) conflicts only with a winner that removed one of
\* the files it rewrote.
Conflicts(r) ==
    CASE r.op = "append" -> FALSE
      [] r.op = "delete" ->
            \E v \in Winners(r) :
                \/ log[v].removes \cap r.files # {}
                \/ \E f \in log[v].adds : Count(Matching(written[f], r.pred)) > 0
      [] OTHER ->
            \E v \in Winners(r) : log[v].removes \cap r.removes # {}

LogOp(op) == IF op \in {"compact", "z_order"} THEN "optimize" ELSE op

\* The commit entry of a prepared write.
EntryOf(r) ==
    Entry(LogOp(r.op), r.ts, r.adds, r.removes, r.pred, r.ndel)

\* Variant of commit without the retry: a task that finds version base+1
\* taken gets the conflict as its result.
commit_no_retry(t) ==
    LET r == task[t]
    IN  /\ r.pc = "prepared"
        /\ IF r.base + 1 \notin DOMAIN log
           THEN /\ r.base + 1 <= MaxVersion
                /\ log' = log @@ ((r.base + 1) :> EntryOf(r))
                /\ modified' = Stamp(r.base + 1)
                /\ task' = [task EXCEPT ![t] = Done(r, r.base + 1, EmptyRows, r.ndel)]
           ELSE /\ log' = log
                /\ modified' = modified
                /\ task' = [task EXCEPT ![t] = Failed(r, "DeltaTable")]
        /\ UNCHANGED <<written, objects, now>>
        /\ UNCHANGED actors

\* Variant of commit that writes the log object with a plain put: version
\* base+1 is replaced when it exists.
commit_overwrite(t) ==
    LET r == task[t]
    IN  /\ r.pc = "prepared"
        /\ r.base + 1 <= MaxVersion
        /\ log' = ((r.base + 1) :> EntryOf(r)) @@ log
        /\ modified' = Stamp(r.base + 1)
        /\ task' = [task EXCEPT ![t] = Done(r, r.base + 1, EmptyRows, r.ndel)]
        /\ UNCHANGED <<written, objects, now>>
        /\ UNCHANGED actors

\* The outcome of an attempt that found version base+1 taken: a conflict with
\* a winner ends the call with an error, and so does the last attempt of the
\* budget; otherwise the task moves its base to the head and tries again.
\* Both errors reach the caller as LakehouseError::DeltaTable (error.rs:80-84).
Lost_unbounded(r) ==
    IF Conflicts(r)
    THEN Failed(r, "DeltaTable")
    ELSE [r EXCEPT !.base = read_head, !.tries = r.tries + 1]

Lost(r) ==
    IF Conflicts(r)
    THEN Failed(r, "DeltaTable")
    ELSE IF r.tries + 1 >= MaxCommitAttempts
    THEN Failed([r EXCEPT !.tries = r.tries + 1], "DeltaTable")
    ELSE [r EXCEPT !.base = read_head, !.tries = r.tries + 1]

\* The commit loop entered by flush_and_commit (store.rs:174), delete
\* (store.rs:194-197) and optimize (store.rs:430, 470-475): put-if-absent of
\* version base+1, at most MaxCommitAttempts times.
commit(t) ==
    LET r == task[t]
    IN  /\ r.pc = "prepared"
        /\ IF r.base + 1 \notin DOMAIN log
           THEN /\ r.base + 1 <= MaxVersion
                /\ log' = log @@ ((r.base + 1) :> EntryOf(r))
                /\ modified' = Stamp(r.base + 1)
                /\ task' = [task EXCEPT ![t] = Done(r, r.base + 1, EmptyRows, r.ndel)]
           ELSE /\ log' = log
                /\ modified' = modified
                /\ task' = [task EXCEPT ![t] = Lost(r)]
        /\ UNCHANGED <<written, objects, now>>
        /\ UNCHANGED actors

\* ---------------------------------------------------------------- delete
\* delete, store.rs:192: open_table.
delete_open(t, p) ==
    /\ task[t].pc = "idle"
    /\ task' = [task EXCEPT ![t] = [Idle EXCEPT !.pc = "opened", !.op = "delete",
                                                !.base = read_head,
                                                !.pred = p]]
    /\ UNCHANGED <<log, written, objects, now, modified>>
    /\ UNCHANGED actors

\* The files of a snapshot that hold rows selected by p.
Candidates(V, p) == {f \in LiveFiles(V) : Count(Matching(written[f], p)) > 0}

\* Variant of delete_execute that rewrites a candidate file with all of its
\* rows, the selected ones included.
delete_execute_unfiltered(t) ==
    LET r == task[t]
        cand == Candidates(r.base, r.pred)
        rows == SumRows(cand, written)
        ndel == Count(Matching(rows, r.pred))
    IN  /\ r.pc = "opened" /\ r.op = "delete"
        /\ IF ~(cand \subseteq objects)
           THEN /\ task' = [task EXCEPT ![t] = Failed(r, "DeltaTable")]
                /\ UNCHANGED <<written, objects>>
           ELSE IF cand = {}
           THEN /\ task' = [task EXCEPT ![t] = Done(r, r.base, EmptyRows, 0)]
                /\ UNCHANGED <<written, objects>>
           ELSE /\ NextFile <= MaxFiles
                /\ written' = Append(written, rows)
                /\ objects' = objects \cup {NextFile}
                /\ task' = [task EXCEPT ![t] =
                                [r EXCEPT !.pc = "prepared", !.files = cand,
                                          !.adds = {NextFile}, !.removes = cand,
                                          !.ts = now, !.ndel = ndel]]
        /\ UNCHANGED <<log, now, modified>>
        /\ UNCHANGED actors

\* Variant of delete_execute that prepares a commit also when no file holds
\* a row to delete.
delete_execute_empty_commit(t) ==
    LET r == task[t]
        cand == Candidates(r.base, r.pred)
        rows == SumRows(cand, written)
        kept == Kept(rows, r.pred)
        ndel == Count(Matching(rows, r.pred))
    IN  /\ r.pc = "opened" /\ r.op = "delete"
        /\ IF ~(cand \subseteq objects)
           THEN /\ task' = [task EXCEPT ![t] = Failed(r, "DeltaTable")]
                /\ UNCHANGED <<written, objects>>
           ELSE IF Count(kept) = 0
           THEN /\ task' = [task EXCEPT ![t] =
                                [r EXCEPT !.pc = "prepared", !.files = cand,
                                          !.removes = cand, !.ts = now,
                                          !.ndel = ndel]]
                /\ UNCHANGED <<written, objects>>
           ELSE /\ NextFile <= MaxFiles
                /\ written' = Append(written, kept)
                /\ objects' = objects \cup {NextFile}
                /\ task' = [task EXCEPT ![t] =
                                [r EXCEPT !.pc = "prepared", !.files = cand,
                                          !.adds = {NextFile}, !.removes = cand,
                                          !.ts = now, !.ndel = ndel]]
        /\ UNCHANGED <<log, now, modified>>
        /\ UNCHANGED actors

\* delete, store.rs:194-197, up to the commit: the candidate files are read
\* (an error when one is gone), the rows that stay are written to one new
\* file, the candidates get remove actions stamped with the clock.  With no
\* row to delete the call returns without a commit.
delete_execute(t) ==
    LET r == task[t]
        cand == Candidates(r.base, r.pred)
        rows == SumRows(cand, written)
        kept == Kept(rows, r.pred)
        ndel == Count(Matching(rows, r.pred))
    IN  /\ r.pc = "opened" /\ r.op = "delete"
        /\ IF ~(cand \subseteq objects)
           THEN /\ task' = [task EXCEPT ![t] = Failed(r, "DeltaTable")]
                /\ UNCHANGED <<written, objects>>
           ELSE IF cand = {}
           THEN /\ task' = [task EXCEPT ![t] = Done(r, r.base, EmptyRows, 0)]
                /\ UNCHANGED <<written, objects>>
           ELSE IF Count(kept) = 0
           THEN /\ task' = [task EXCEPT ![t] =
                                [r EXCEPT !.pc = "prepared", !.files = cand,
                                          !.removes = cand, !.ts = now,
                                          !.ndel = ndel]]
                /\ UNCHANGED <<written, objects>>
           ELSE /\ NextFile <= MaxFiles
                /\ written' = Append(written, kept)
                /\ objects' = objects \cup {NextFile}
                /\ task' = [task EXCEPT ![t] =
                                [r EXCEPT !.pc = "prepared", !.files = cand,
                                          !.adds = {NextFile}, !.removes = cand,
                                          !.ts = now, !.ndel = ndel]]
        /\ UNCHANGED <<log, now, modified>>
        /\ UNCHANGED actors

\* -------------------------------------------------------------- optimize
\* compact, store.rs:428 and z_order, store.rs:466: open_table.
optimize_open(t, op) ==
    /\ task[t].pc = "idle"
    /\ task' = [task EXCEPT ![t] = [Idle EXCEPT !.pc = "opened", !.op = op,
                                                !.base = read_head]]
    /\ UNCHANGED <<log, written, objects, now, modified>>
    /\ UNCHANGED actors

\* The files an optimize rewrites.  Every data file of the model is far
\* below the target file size, so compaction bins all files of the (single)
\* partition together and skips a bin of one file; z-order rewrites every
\* file of the partition in the order of the z-curve.
OptimizeInput(op, V) ==
    LET live == LiveFiles(V)
    IN  IF op = "compact" /\ Cardinality(live) < 2 THEN {} ELSE live

\* Variant of optimize_execute that deletes the files it has rewritten
\* from the directory at once.
optimize_execute_eager(t) ==
    LET r == task[t]
        input == OptimizeInput(r.op, r.base)
    IN  /\ r.pc = "opened" /\ r.op \in {"compact", "z_order"}
        /\ IF ~(input \subseteq objects)
           THEN /\ task' = [task EXCEPT ![t] = Failed(r, "DeltaTable")]
                /\ UNCHANGED <<written, objects>>
           ELSE IF input = {}
           THEN /\ task' = [task EXCEPT ![t] = Done(r, r.base, EmptyRows, 0)]
                /\ UNCHANGED <<written, objects>>
           ELSE /\ NextFile <= MaxFiles
                /\ written' = Append(written, SumRows(input, written))
                /\ objects' = (objects \cup {NextFile}) \ input
                /\ task' = [task EXCEPT ![t] =
                                [r EXCEPT !.pc = "prepared", !.files = input,
                                          !.adds = {NextFile}, !.removes = input,
                                          !.ts = now]]
        /\ UNCHANGED <<log, now, modified>>
        /\ UNCHANGED actors

\* compact, store.rs:430 and z_order, store.rs:470-475, up to the commit: the
\* input files are read and their rows written to one new file.  With
\* nothing to rewrite the call returns without a commit.
optimize_execute(t) ==
    LET r == task[t]
        input == OptimizeInput(r.op, r.base)
    IN  /\ r.pc = "opened" /\ r.op \in {"compact", "z_order"}
        /\ IF ~(input \subseteq objects)
           THEN /\ task' = [task EXCEPT ![t] = Failed(r, "DeltaTable")]
                /\ UNCHANGED <<written, objects>>
           ELSE IF input = {}
           THEN /\ task' = [task EXCEPT ![t] = Done(r, r.base, EmptyRows, 0)]
                /\ UNCHANGED <<written, objects>>
           ELSE /\ NextFile <= MaxFiles
                /\ written' = Append(written, SumRows(input, written))
                /\ objects' = objects \cup {NextFile}
                /\ task' = [task EXCEPT ![t] =
                                [r EXCEPT !.pc = "prepared", !.files = input,
                                          !.adds = {NextFile}, !.removes = input,
                                          !.ts = now]]
        /\ UNCHANGED <<log, now, modified>>
        /\ UNCHANGED actors

\* ----------------------------------------------------------------- reads
\* Variant of read_open that only refuses versions above the head.
read_open_no_floor(t, op, V) ==
    /\ task[t].pc = "idle"
    /\ task' = [task EXCEPT ![t] =
                    IF V <= read_head
                    THEN [Idle EXCEPT !.pc = "pinned", !.op = op,
                                      !.base = V, !.want = V, !.files = LiveFiles(V)]
                    ELSE Failed([Idle EXCEPT !.op = op, !.want = V],
                                "VersionNotFound")]
    /\ UNCHANGED <<log, written, objects, now, modified>>
    /\ UNCHANGED actors

\* Variant of read_open that pins the file list of the head whatever
\* version is asked for.
read_open_head(t, op, V) ==
    /\ task[t].pc = "idle"
    /\ task' = [task EXCEPT ![t] =
                    IF V \in DOMAIN log
                    THEN [Idle EXCEPT !.pc = "pinned", !.op = op,
                                      !.base = V, !.want = V,
                                      !.files = LiveFiles(read_head)]
                    ELSE Failed([Idle EXCEPT !.op = op, !.want = V],
                                "VersionNotFound")]
    /\ UNCHANGED <<log, written, objects, now, modified>>
    /\ UNCHANGED actors

\* scan, store.rs:218 (V = head) and read_version, store.rs:328-334 (V = the
\* version asked for): the table is loaded at V, which pins the file list of
\* V.  open_table_with_version fails for a version that is not in the log,
\* and read_version maps every failure to VersionNotFound.
read_open(t, op, V) ==
    /\ task[t].pc = "idle"
    /\ task' = [task EXCEPT ![t] =
                    IF V \in DOMAIN log
                    THEN [Idle EXCEPT !.pc = "pinned", !.op = op,
                                      !.base = V, !.want = V, !.files = LiveFiles(V)]
                    ELSE Failed([Idle EXCEPT !.op = op, !.want = V],
                                "VersionNotFound")]
    /\ UNCHANGED <<log, written, objects, now, modified>>
    /\ UNCHANGED actors

scan_open(t) == read_open(t, "scan", read_head)

read_version_open(t, V) == read_open(t, "read_version", V)

\* The timestamps asked for: one before the table was created, and the
\* times the clock can show.
Timestamps == {-1} \cup {k * ClockStep : k \in 0 .. MaxTicks}

\* The version open_table_with_ds (store.rs:369) loads for timestamp T: a
\* binary search over the last-modified times of the log objects of versions
\* lo..hi, which stops at a version whose time equals T; version is the
\* result so far.
RECURSIVE SearchVersion(_, _, _, _)
SearchVersion(lo, hi, version, T) ==
    IF lo > hi THEN version
    ELSE LET pivot == (lo + hi) \div 2
         IN  IF modified[pivot] = T THEN pivot
             ELSE IF modified[pivot] < T
                  THEN SearchVersion(pivot + 1, hi, pivot, T)
                  ELSE SearchVersion(lo, pivot - 1, pivot - 1, T)

\* A result below the first version of the log is moved up to it.
load_with_datetime(T) ==
    LET version == SearchVersion(0, read_head, 0, T)
    IN  IF version < 0 THEN 0 ELSE version

\* read_timestamp, store.rs:368-369: the table is loaded at the version found
\* for the timestamp, which pins the file list of that version.
read_timestamp_open(t, T) ==
    /\ task[t].pc = "idle"
    /\ LET V == load_with_datetime(T)
       IN  task' = [task EXCEPT ![t] =
                       [Idle EXCEPT !.pc = "pinned", !.op = "read_timestamp",
                                    !.base = V, !.want = V, !.at = T,
                                    !.files = LiveFiles(V)]]
    /\ UNCHANGED <<log, written, objects, now, modified>>
    /\ UNCHANGED actors

\* scan, store.rs:219-232, read_version, store.rs:335-348 and read_timestamp,
\* store.rs:370-383: SELECT * FROM t
\* reads every pinned file; a file that is gone is a DataFusion error.
read_collect(t) ==
    LET r == task[t]
    IN  /\ r.pc = "pinned"
        /\ task' = [task EXCEPT ![t] =
                        IF r.files \subseteq objects
                        THEN Done([r EXCEPT !.adds = r.files], r.base,
                                  SumRows(r.files, written), 0)
                        ELSE Failed(r, "DataFusion")]
        /\ UNCHANGED <<log, written, objects, now, modified>>
        /\ UNCHANGED actors

\* ---------------------------------------------------------------- vacuum
\* vacuum, store.rs:513: open_table.
vacuum_open(t, retention_hours, dry_run) ==
    /\ task[t].pc = "idle"
    /\ task' = [task EXCEPT ![t] = [Idle EXCEPT !.pc = "opened", !.op = "vacuum",
                                                !.base = read_head,
                                                !.retention = retention_hours,
                                                !.dry_run = dry_run]]
    /\ UNCHANGED <<log, written, objects, now, modified>>
    /\ UNCHANGED actors

\* Variant of EnforceRetention that leaves the check on for every retention.
EnforceRetention_always(retention_hours) == retention_hours >= 0

\* vacuum, store.rs:520: with_enforce_retention_duration(retention_hours > 0).
EnforceRetention(retention_hours) == retention_hours > 0

\* The retention check of the vacuum builder: with enforcement on, a
\* retention below the table's minimum is refused.
RetentionRefused(retention_hours) ==
    EnforceRetention(retention_hours) /\ retention_hours < MinRetentionHours

\* Variant of VacuumSelect that also takes the files the log of the
\* snapshot does not mention.
VacuumSelect_full(V, retention_hours, clock) ==
    {f \in objects : /\ f \notin LiveFiles(V)
                     /\ f \in Tombstones(V)
                            => DeletionTimestamp(f) < clock - retention_hours}

\* Variant of VacuumSelect that goes by the age of the commit that added a
\* file, whether or not the file is still in the file-set.
VacuumSelect_by_age(V, retention_hours, clock) ==
    {f \in objects :
        \E v \in {x \in DOMAIN log : x <= V} :
            f \in log[v].adds /\ log[v].ts < clock - retention_hours}

\* The files a vacuum of snapshot V at time clock deletes: files in the
\* directory that have a remove action in the log whose deletion timestamp is
\* before clock - retention.  Files the log never mentions are left alone.
VacuumSelect(V, retention_hours, clock) ==
    {f \in objects : /\ f \in Tombstones(V)
                     /\ f \notin LiveFiles(V)
                     /\ DeletionTimestamp(f) < clock - retention_hours}

\* vacuum, store.rs:515-536.
vacuum_execute(t) ==
    LET r == task[t]
        stale == VacuumSelect(r.base, r.retention, now)
    IN  /\ r.pc = "opened" /\ r.op = "vacuum"
        /\ IF RetentionRefused(r.retention)
           THEN /\ task' = [task EXCEPT ![t] = Failed(r, "DeltaTable")]
                /\ objects' = objects
           ELSE /\ task' = [task EXCEPT ![t] =
                                Done([r EXCEPT !.removes = stale, !.adds = {}],
                                     r.base, EmptyRows, Cardinality(stale))]
                /\ objects' = IF r.dry_run THEN objects ELSE objects \ stale
        /\ UNCHANGED <<log, written, now, modified>>
        /\ UNCHANGED actors

\* ----------------------------------------------------------- environment
\* The wall clock advances.
Tick ==
    /\ now + ClockStep <= MaxClock
    /\ now' = now + ClockStep
    /\ UNCHANGED <<log, written, objects, task, modified>>
    /\ UNCHANGED actors

\* A call is dropped at an await point (its task is aborted or the process
\* stops): its locals are gone, what it put in the directory stays.
Cancel(t) ==
    /\ task[t].pc \in {"opened", "prepared", "pinned", "creating", "create_commit"}
    /\ task' = [task EXCEPT ![t] = Idle]
    /\ UNCHANGED <<log, written, objects, now, modified>>
    /\ UNCHANGED actors

\* The caller takes the result of a finished call.
Return(t) ==
    /\ task[t].pc = "done"
    /\ task' = [task EXCEPT ![t] = Idle]
    /\ UNCHANGED <<log, written, objects, now, modified>>
    /\ UNCHANGED actors

\* ------------------------------------------------------- specifications
\* Two tasks that write and read the table concurrently; the clock stands
\* still and nobody vacuums.
NextWrite ==
    \/ \E t \in Tasks, b \in Batches : append_open(t, b)
    \/ \E t \in Tasks : append_write(t)
    \/ \E t \in Tasks : commit(t)
    \/ \E t \in Tasks, p \in Preds : delete_open(t, p)
    \/ \E t \in Tasks : delete_execute(t)
    \/ \E t \in Tasks, op \in {"compact", "z_order"} : optimize_open(t, op)
    \/ \E t \in Tasks : optimize_execute(t)
    \/ \E t \in Tasks : scan_open(t)
    \/ \E t \in Tasks, V \in 0 .. (read_head + 1) : read_version_open(t, V)
    \/ \E t \in Tasks : read_collect(t)
    \/ \E t \in Tasks : Cancel(t)
    \/ \E t \in Tasks : Return(t)

Spec == Init /\ [][NextWrite]_vars

\* The table with its single writer, as the actors use it, next to a task
\* that reads; both may run vacuum, and the clock advances.
Owner == {"t1"}
Reader == {"t2"}

NextTable ==
    \/ \E t \in Owner, b \in Batches : append_open(t, b)
    \/ \E t \in Owner : append_write(t)
    \/ \E t \in Owner : commit(t)
    \/ \E t \in Owner, p \in Preds : delete_open(t, p)
    \/ \E t \in Owner : delete_execute(t)
    \/ \E t \in Owner, op \in {"compact", "z_order"} : optimize_open(t, op)
    \/ \E t \in Owner : optimize_execute(t)
    \/ \E t \in Reader : scan_open(t)
    \/ \E t \in Reader, V \in 0 .. (read_head + 1) : read_version_open(t, V)
    \/ \E t \in Reader : read_collect(t)
    \/ \E t \in Tasks : vacuum_execute(t)
    \/ Tick
    \/ \E t \in Tasks : Cancel(t)
    \/ \E t \in Tasks : Return(t)

\* vacuum called with any of the retentions the repository passes.
NextVacuum ==
    \/ NextTable
    \/ \E t \in Tasks, c \in VacuumCalls : vacuum_open(t, c[1], c[2])

SpecVacuum == Init /\ [][NextVacuum]_vars

\* vacuum called only as the maintenance scheduler calls it with the default
\* configuration (maintenance.rs:143-149): the configured retention, no dry run.
NextConfigured ==
    \/ NextTable
    \/ \E t \in Tasks : vacuum_open(t, vacuum_retention_hours, FALSE)

SpecConfigured == Init /\ [][NextConfigured]_vars

\* The table with its single writer next to a task that reads old versions,
\* by version and by timestamp, while the clock advances.
NextTimeTravel ==
    \/ \E t \in Owner, b \in Batches : append_open(t, b)
    \/ \E t \in Owner : append_write(t)
    \/ \E t \in Owner : commit(t)
    \/ \E t \in Owner, p \in Preds : delete_open(t, p)
    \/ \E t \in Owner : delete_execute(t)
    \/ \E t \in Owner, op \in {"compact", "z_order"} : optimize_open(t, op)
    \/ \E t \in Owner : optimize_execute(t)
    \/ \E t \in Reader, V \in (-1) .. (read_head + 1) : read_version_open(t, V)
    \/ \E t \in Reader, T \in Timestamps : read_timestamp_open(t, T)
    \/ \E t \in Reader : read_collect(t)
    \/ Tick
    \/ \E t \in Tasks : Cancel(t)
    \/ \E t \in Tasks : Return(t)

SpecTimeTravel == InitTimeTravel /\ [][NextTimeTravel]_vars

\* Two tasks that construct a DeltaStore on the same base path, which may not
\* hold the table yet, and append to the table and scan it once it is there.
NextInit ==
    \/ \E t \in Tasks : ensure_open(t)
    \/ \E t \in Tasks : ensure_check(t)
    \/ \E t \in Tasks : ensure_commit(t)
    \/ \E t \in Tasks, b \in Batches : TableExists /\ append_open(t, b)
    \/ \E t \in Tasks : append_write(t)
    \/ \E t \in Tasks : commit(t)
    \/ \E t \in Tasks : TableExists /\ scan_open(t)
    \/ \E t \in Tasks : read_collect(t)
    \/ \E t \in Tasks : Cancel(t)
    \/ \E t \in Tasks : Return(t)

SpecInit == InitEmpty /\ [][NextInit]_vars

\* ================================================================ claims
Plus(a, b) == [v \in Vals |-> a[v] + b[v]]

DoneOk(t, op) == task[t].pc = "done" /\ task[t].op = op /\ task[t].ok

\* C1: two appends that both start from head V end with one commit at V+1
\* and the other at V+2: both return success (no conflict error reaches a
\* caller), the versions differ, each version holds that call's commit, and
\* the table at V+2 holds the rows of V and of both batches, all readable.
C1_ConcurrentAppends ==
    \A t \in Tasks, u \in Tasks :
        (/\ t # u
         /\ task[t].pc = "done" /\ task[t].op = "append"
         /\ task[u].pc = "done" /\ task[u].op = "append"
         /\ task[t].start = task[u].start)
        => LET V == task[t].start
           IN  /\ task[t].ok /\ task[u].ok
               /\ {task[t].version, task[u].version} = {V + 1, V + 2}
               /\ log[task[t].version].adds = task[t].adds
               /\ log[task[u].version].adds = task[u].adds
               /\ read_head = V + 2
               /\ RowsAt(V + 2) = Plus(RowsAt(V), Plus(task[t].batch, task[u].batch))
               /\ LiveFiles(V + 2) \subseteq objects

\* Both appends of C1 have returned, and one of them lost the first race
\* (it committed two versions above the head it started from).
C1_Witness ==
    \E t \in Tasks, u \in Tasks :
        /\ t # u
        /\ DoneOk(t, "append") /\ DoneOk(u, "append")
        /\ task[t].start = task[u].start
        /\ task[u].version = task[u].start + 2

\* C2: a fresh table is at version 0, and every step that changes the log
\* publishes exactly the version head+1 and leaves the published versions
\* as they are, so the versions are always 0..head without gap or duplicate
\* and are handed out in increasing order; the version an append returns is
\* the version of its own commit.
C2_Step ==
    /\ DOMAIN log = 0 .. read_head
    /\ log' # log =>
          /\ DOMAIN log' = DOMAIN log \cup {read_head + 1}
          /\ \A v \in DOMAIN log : log'[v] = log[v]
          /\ \E t \in Tasks :
                /\ task[t].pc = "prepared" /\ task'[t].pc = "done" /\ task'[t].ok
                /\ task'[t].version = read_head + 1
                /\ log'[read_head + 1].adds = task[t].adds

C2_MonotonicVersions == (DOMAIN log = {0}) /\ [][C2_Step]_vars

\* Two appends have returned and the head is above 1.
C2_Witness ==
    /\ read_head >= 2
    /\ \E t \in Tasks, u \in Tasks :
          t # u /\ DoneOk(t, "append") /\ DoneOk(u, "append")

\* C5: the commit of a successful append adds exactly the rows of its batch
\* to the table (the rows at its version are the rows of the version before
\* plus the batch) and removes no file.
C5_AppendRoundTrip ==
    \A t \in Tasks :
        DoneOk(t, "append") =>
            LET v == task[t].version
            IN  /\ log[v].op = "append"
                /\ log[v].removes = {}
                /\ RowsAt(v) = Plus(RowsAt(v - 1), task[t].batch)

\* An append has returned on a table that already held rows.
C5_Witness ==
    \E t \in Tasks :
        /\ DoneOk(t, "append")
        /\ Count(RowsAt(task[t].version - 1)) > 0

\* C4: when delete(p) returns success with new version v, the table at v
\* holds no row selected by p, holds every other row of the version before
\* with the same multiplicity, and num_deleted_rows is the number of rows of
\* the version before that p selects.  (A delete that finds nothing to
\* delete commits nothing: the version before is then v itself.)
C4_DeleteSound ==
    \A t \in Tasks :
        DoneOk(t, "delete") =>
            LET v == task[t].version
                before == IF task[t].removes = {} THEN RowsAt(v) ELSE RowsAt(v - 1)
            IN  /\ Count(Matching(RowsAt(v), task[t].pred)) = 0
                /\ RowsAt(v) = Kept(before, task[t].pred)
                /\ task[t].count = Count(Matching(before, task[t].pred))

\* A delete has returned that deleted a row and kept another one.
C4_Witness ==
    \E t \in Tasks :
        /\ DoneOk(t, "delete")
        /\ task[t].count > 0
        /\ Count(RowsAt(task[t].version)) > 0

\* C6: every optimize commit (compact or z_order) leaves the rows of the
\* table as they were in the version before and changes the file-set.
C6_OptimizeKeepsRows ==
    \A v \in DOMAIN log :
        log[v].op = "optimize" =>
            /\ RowsAt(v) = RowsAt(v - 1)
            /\ LiveFiles(v) # LiveFiles(v - 1)

\* A compact that merged two files has returned.
C6_Witness ==
    \E t \in Tasks :
        /\ DoneOk(t, "compact")
        /\ Cardinality(task[t].removes) >= 2
        /\ Count(RowsAt(task[t].version)) >= 2

\* The ids of all data files ever written, and the files a commit mentions.
AllFiles == 1 .. Len(written)
Referenced == UNION {log[v].adds \cup log[v].removes : v \in DOMAIN log}

IsRead(t) == task[t].op \in {"scan", "read_version"}

\* C3 as stated: with vacuum run only at the configured retention, every
\* read_version(V) of a version of the log succeeds and returns the rows of
\* commits 0..V.
C3_AsStated ==
    \A t \in Tasks :
        (task[t].pc = "done" /\ task[t].op = "read_version"
            /\ task[t].err # "VersionNotFound")
        => task[t].ok /\ task[t].rows = RowsAt(task[t].want)

\* C3 amended: a read_version(V) that succeeds returns exactly the rows of
\* commits 0..V, whatever was committed after V and whatever vacuum did; a
\* read_version(V) of a version of the log fails only when a file of V is no
\* longer in the directory, and that file is one a later commit removed
\* more than the retention ago.
C3_TimeTravel ==
    \A t \in Tasks :
        (task[t].pc = "done" /\ task[t].op = "read_version")
        => /\ task[t].ok => task[t].rows = RowsAt(task[t].want)
           /\ (~task[t].ok /\ task[t].err # "VersionNotFound") =>
                 \E f \in LiveFiles(task[t].want) :
                     /\ f \notin objects
                     /\ f \in Tombstones(read_head)
                     /\ DeletionTimestamp(f) < now - vacuum_retention_hours

\* A read_version of an old version has succeeded after later commits and
\* after vacuum deleted a file.
C3_Witness ==
    \E t \in Tasks :
        /\ DoneOk(t, "read_version")
        /\ task[t].want >= 1 /\ task[t].want < read_head
        /\ Count(task[t].rows) > 0
        /\ AllFiles \ objects # {}

\* A vacuum step of task t that ran (was not refused) without dry_run.
VacuumRan(t) ==
    /\ task[t].pc = "opened" /\ task[t].op = "vacuum"
    /\ task'[t].pc = "done" /\ task'[t].ok /\ ~task[t].dry_run

\* Files in the directory that no commit mentions and no running call holds.
Orphans ==
    {f \in objects : /\ f \notin Referenced
                     /\ \A t \in Tasks : f \notin task[t].adds}

\* C7 as stated: a vacuum with retention R that runs at time now deletes no
\* file mentioned by a commit with timestamp > now - R, and deletes every
\* orphan.
C7_AsStated ==
    [][\A t \in Tasks :
          VacuumRan(t) =>
             /\ \A f \in objects \ objects' :
                   \A v \in DOMAIN log :
                       f \in log[v].adds \cup log[v].removes
                           => ~(log[v].ts > now - task[t].retention)
             /\ \A f \in Orphans : f \notin objects']_vars

\* C8 as stated: a reader that has pinned its file list never fails and
\* returns the rows of the version it pinned.
C8_AsStated ==
    \A t \in Tasks :
        (task[t].pc = "done" /\ IsRead(t) /\ task[t].err # "VersionNotFound")
        => task[t].ok /\ task[t].rows = RowsAt(task[t].want)

\* C8 amended: a reader that has pinned its file list never returns other
\* rows than those of the version it pinned, and a compact or z_order never
\* makes it fail, because they delete no file.  A pinned file leaves the
\* directory only through vacuum, and only when a commit has removed it and
\* the removal is older than the vacuum's retention: at once for retention
\* 0, which is what gdpr_delete_user passes.
C8_PinnedReader ==
    /\ \A t \in Tasks :
          (task[t].pc = "done" /\ IsRead(t) /\ task[t].ok)
              => task[t].rows = RowsAt(task[t].want)
    /\ \A t \in Tasks :
          task[t].pc = "pinned" =>
              \A f \in task[t].files :
                  f \notin objects =>
                      f \in Tombstones(read_head) /\ DeletionTimestamp(f) < now
    /\ \A t \in Tasks :
          (DoneOk(t, "vacuum") /\ ~task[t].dry_run) =>
              \A f \in task[t].removes :
                  /\ f \notin objects
                  /\ DeletionTimestamp(f) < now - task[t].retention

\* A reader holds a pinned list of which a file was rewritten by a later
\* commit and deleted by a vacuum.
C8_Witness ==
    \E t \in Tasks :
        /\ task[t].pc = "pinned"
        /\ \E f \in task[t].files : f \in Tombstones(read_head) /\ f \notin objects

\* C9: every file of the file-set at the head is in the directory, in every
\* state: with calls dropped at any step and with vacuum running beside a
\* write in flight.
C9_NoDanglingReference == LiveFiles(read_head) \subseteq objects

\* A write was published whose data file sat uncommitted in the directory
\* while a vacuum deleted files: the vacuum has returned, the file of the
\* commit at the head is newer than every file the vacuum deleted.
C9_Witness ==
    \E t \in Tasks :
        /\ DoneOk(t, "vacuum") /\ ~task[t].dry_run
        /\ task[t].removes # {}
        /\ task[t].version < read_head
        /\ log[read_head].adds # {}
        /\ Orphans # {}

\* A vacuum step of task t, refused or not.
VacuumStep(t) ==
    /\ task[t].pc = "opened" /\ task[t].op = "vacuum"
    /\ task'[t].pc = "done"

\* C10 as stated: vacuum with retention 0 never succeeds.
C10_AsStated ==
    \A t \in Tasks :
        (task[t].pc = "done" /\ task[t].op = "vacuum" /\ task[t].retention = 0)
        => ~task[t].ok

\* C10 amended: vacuum(table, 0, dry_run) is never refused; the store itself
\* switches the retention check off for retention 0, and the call then
\* deletes (reports, under dry_run) every file in the directory that a
\* commit removed before now.  A vacuum is refused exactly when its
\* retention is above 0 and below the table's minimum of 168 hours, and a
\* refused or dry-run vacuum deletes nothing.
C10_Step ==
    \A t \in Tasks :
        VacuumStep(t) =>
            LET R == task[t].retention
            IN  /\ task'[t].ok <=> (R = 0 \/ R >= MinRetentionHours)
                /\ (~task'[t].ok \/ task[t].dry_run) => objects' = objects
                /\ (R = 0) =>
                      /\ task'[t].removes =
                            {f \in objects : /\ f \in Tombstones(task[t].base)
                                             /\ DeletionTimestamp(f) < now}
                      /\ ~task[t].dry_run => objects' = objects \ task'[t].removes

C10_ZeroRetention == [][C10_Step]_vars

\* A vacuum with retention 0 and no dry run has returned success and has
\* deleted a file.
C10_Witness ==
    \E t \in Tasks :
        /\ DoneOk(t, "vacuum")
        /\ task[t].retention = 0 /\ ~task[t].dry_run
        /\ task[t].removes # {}

\* A read_version step of task t.
ReadVersionStep(t) ==
    /\ task[t].pc = "idle"
    /\ task'[t].pc # "idle" /\ task'[t].op = "read_version"

\* C11: a read_version(V) with V < 0 or V > head ends at once with the error
\* VersionNotFound that carries V: the call pins no file list and reads no
\* data file.  (A version of the log is never answered with that error.)
C11_Step ==
    \A t \in Tasks :
        ReadVersionStep(t) =>
            LET V == task'[t].want
            IN  IF V < 0 \/ V > read_head
                THEN /\ task'[t].pc = "done" /\ ~task'[t].ok
                     /\ task'[t].err = "VersionNotFound"
                     /\ task'[t].files = {} /\ task'[t].adds = {}
                     /\ task'[t].rows = EmptyRows
                ELSE task'[t].pc = "pinned"

C11_VersionNotFound == [][C11_Step]_vars

\* read_version has answered VersionNotFound for a negative version on a
\* table that holds rows.
C11_Witness ==
    \E t \in Tasks :
        /\ task[t].pc = "done" /\ task[t].op = "read_version"
        /\ task[t].err = "VersionNotFound"
        /\ task[t].want < 0
        /\ Count(RowsAt(read_head)) > 0

\* The versions whose commit timestamp is at or before T.
VersionsUpTo(T) == {v \in DOMAIN log : modified[v] <= T}

\* A read_timestamp step of task t.
ReadTimestampStep(t) ==
    /\ task[t].pc = "idle"
    /\ task'[t].pc # "idle" /\ task'[t].op = "read_timestamp"

\* C12 as stated: read_timestamp(T) reads the greatest version whose commit
\* timestamp is <= T and returns its rows, and answers VersionNotFound when
\* there is no such version.
C12_AsStated ==
    /\ [][\A t \in Tasks :
            ReadTimestampStep(t) =>
                LET T == task'[t].at
                IN  IF VersionsUpTo(T) = {}
                    THEN /\ task'[t].pc = "done"
                         /\ task'[t].err = "VersionNotFound"
                    ELSE /\ task'[t].pc = "pinned"
                         /\ task'[t].want = Max(VersionsUpTo(T))]_vars
    /\ [](\A t \in Tasks :
            (task[t].pc = "done" /\ task[t].op = "read_timestamp" /\ task[t].ok)
                => task[t].rows = RowsAt(task[t].want))

\* A step of an ensure_table call of task t.
EnsureStep(t) ==
    /\ task'[t] # task[t]
    /\ task[t].op = "ensure_table" \/ task'[t].op = "ensure_table"
    /\ task'[t].pc # "idle"

\* C13: the log of a table starts with exactly the create commit, version 0,
\* which adds no file; once version 0 is there it is never rewritten, no step
\* of an ensure_table (of DeltaStore::new) changes the log or the files, and
\* every ensure_table that starts then returns success.
C13_Step ==
    /\ (~TableExists /\ log' # log) =>
          /\ log' = (0 :> CreateEntry)
          /\ log'[0].adds = {} /\ objects' = objects /\ written' = written
    /\ TableExists =>
          /\ log'[0] = log[0]
          /\ \A t \in Tasks :
                EnsureStep(t) =>
                    /\ log' = log /\ objects' = objects /\ written' = written
                    /\ RowsAt(read_head)' = RowsAt(read_head)
                    /\ task[t].pc = "idle" => task'[t].pc = "done" /\ task'[t].ok

C13_EnsureIdempotent == [][C13_Step]_vars

\* An ensure_table has returned success on a table that holds rows.
C13_Witness ==
    \E t \in Tasks :
        /\ DoneOk(t, "ensure_table")
        /\ task[t].version >= 1
        /\ Count(RowsAt(task[t].version)) > 0


\* ------------------------------------------------------ actors: sending
\* What a handle method does before it awaits the reply: tx.send(msg).await
\* puts the message at the back of the mailbox, and waits while the mailbox
\* is full.  AuditHandle::log sends without a reply channel.  The ids and the
\* audit rows of the model are finite: a register or a log is sent only while
\* one of them is left.
Queued(a, kind) ==
    Cardinality({i \in 1 .. Len(mailbox[a]) : mailbox[a][i].kind = kind})

client_send(c, a, m) ==
    /\ client[c] = "idle"
    /\ m.from = c
    /\ Len(mailbox[a]) < MailboxCap
    /\ m.kind = "register" => uuid + Queued(a, "register") < MaxUsers
    /\ m.kind = "log" =>
          Len(audit) + Queued(a, "log")
            + (IF actor[a].pc = <<"append", "audit_log">> THEN 1 ELSE 0) < MaxAudit
    /\ mailbox' = [mailbox EXCEPT ![a] = Append(@, m)]
    /\ client' = IF m.kind = "log" THEN client
                 ELSE [client EXCEPT ![c] = "waiting"]
    /\ UNCHANGED <<users, sessions, audit, uuid, actor, last, maint, seen>>
    /\ UNCHANGED <<store_vars, now>>

\* ---------------------------------------------------- actors: the loop
\* Variant of recv that takes the newest message of the mailbox.
recv_newest(q) == q[Len(q)]

\* rx.recv() of the run loops: the oldest message of the mailbox.
recv(q) == Head(q)

\* The loop is at rx.recv().await and the message it gets is of this kind.
Receiving(a, kind) ==
    /\ actor[a].pc = <<"idle", "none">>
    /\ mailbox[a] # <<>>
    /\ recv(mailbox[a]).kind = kind

\* The rows of a table, and whether a delete with  column = '{value}'  finds
\* a file to rewrite in the snapshot it opens.
Range(q) == {q[i] : i \in 1 .. Len(q)}
Rows(table) ==
    CASE table = "users" -> Range(users)
      [] table = "sessions" -> sessions
      [] table = "audit_log" -> Range(audit)
      [] OTHER -> {}
Reads(table, column, value) ==
    \E row \in Rows(table) : Selects(row, column, value)

\* A commit that removed files (hit) fails the calls in flight on the same
\* table that read or rewrite them: a delete that found rows, an optimize.
Loses(rec, table, hit) ==
    /\ hit
    /\ rec.pc[2] = table
    /\ \/ rec.pc[1] = "delete" /\ rec.reads
       \/ rec.pc[1] \in {"compact", "z_order"}
ActorsAfter(table, hit) ==
    [a \in Actors |-> IF Loses(actor[a], table, hit)
                      THEN [actor[a] EXCEPT !.conflict = TRUE] ELSE actor[a]]
MaintAfter(table, hit) ==
    [p \in Callers |-> IF Loses(maint[p], table, hit)
                          THEN [maint[p] EXCEPT !.conflict = TRUE] ELSE maint[p]]
\* Whether a commit removed files that a call in flight holds.
Hits(removed) == IF removed THEN BOOLEAN ELSE {FALSE}

\* The handler goes on to a store call that writes: the loop holds the
\* message until the call returns.
Begin(a, pc, user, row, token, reads) ==
    /\ actor' = [actor EXCEPT ![a] =
                    [pc |-> pc, msg |-> recv(mailbox[a]), user |-> user,
                     row |-> row, token |-> token, reads |-> reads,
                     conflict |-> FALSE]]
    /\ mailbox' = [mailbox EXCEPT ![a] = Tail(@)]

\* Variant of Loop: an error of a handler ends the run loop.
Loop_stop(err) ==
    IF err = "none" THEN ActorIdle ELSE [ActorIdle EXCEPT !.pc = <<"stopped", "none">>]

\* The run loops after a handler returned (auth/actor.rs:166-202,
\* audit/actor.rs:99-116): the result, Ok or Err, is sent as the reply or
\* logged, and the loop is at rx.recv() again.
Loop(err) == ActorIdle

\* reply.send(result) of the run loops.
Answer(m, ok, err, user, token, rows) ==
    /\ last' = Reply(m, ok, err, user, token, rows)
    /\ client' = [client EXCEPT ![m.from] = "idle"]

\* The handler returns without writing.
ReplyNow(a, ok, err, user, token, rows) ==
    /\ mailbox' = [mailbox EXCEPT ![a] = Tail(@)]
    /\ Answer(recv(mailbox[a]), ok, err, user, token, rows)
    /\ actor' = [actor EXCEPT ![a] = Loop(err)]

\* ------------------------------------------------- auth actor: handlers
handle_get_user(user_id) ==
    LET rows == query(users, "user_id", user_id)
    IN  IF rows = <<>> THEN NoUser ELSE extract_user_from_batch(rows[1])

query_users(column, value) ==
    LET rows == query(users, column, value)
    IN  [i \in 1 .. Len(rows) |-> extract_user_from_batch(rows[i])]

handle_get_pending == query_users("role", "pending")

\* query_users("is_active = true"): every row is written with is_active = true.
handle_get_all_users == [i \in 1 .. Len(users) |-> extract_user_from_batch(users[i])]

\* The error handle_register returns before it writes, "none" when it goes on.
register_check(username, email, password) ==
    IF len(username) < 3 THEN "AuthenticationFailed"
    ELSE IF ~contains_at(email) THEN "AuthenticationFailed"
    ELSE IF len(password) < 8 THEN "PasswordTooWeak"
    ELSE IF query(users, "username", username) # <<>> THEN "UserAlreadyExists"
    ELSE IF query(users, "email", email) # <<>> THEN "UserAlreadyExists"
    ELSE "none"

handle_register ==
    /\ Receiving("auth", "register")
    /\ LET m == recv(mailbox["auth"])
           err == register_check(m.username, m.email, m.password)
           row == UserRow(UserIds[uuid + 1], m.username, m.email,
                          hash_password(m.password), "pending", m.tier)
       IN  IF err # "none"
           THEN /\ ReplyNow("auth", FALSE, err, NoUser, GarbageToken, <<>>)
                /\ UNCHANGED uuid
           ELSE /\ uuid' = uuid + 1
                /\ Begin("auth", <<"append", "users">>,
                         extract_user_from_batch(row), row, GarbageToken, FALSE)
                /\ UNCHANGED <<client, last>>
    /\ UNCHANGED <<users, sessions, audit, maint, seen>>
    /\ UNCHANGED <<store_vars, now>>

\* store.append(TABLE_USERS, batch) of handle_register, handle_approve and
\* handle_change_password returns, and the handler with it: `?` passes an
\* error of the append on as the result.
append_users ==
    LET r == actor["auth"]
        err == IF r.conflict THEN "DeltaTable" ELSE "none"
    IN  /\ r.pc = <<"append", "users">>
        /\ users' = IF r.conflict THEN users ELSE Append(users, r.row)
        /\ Answer(r.msg, ~r.conflict, err, IF r.conflict THEN NoUser ELSE r.user,
                  GarbageToken, <<>>)
        /\ actor' = [actor EXCEPT !["auth"] = Loop(err)]
        /\ seen' = IF r.msg.kind = "approve_user" \/ r.conflict THEN seen
                   ELSE [seen EXCEPT !.password[r.row.username] =
                                        r.row.password_hash.password]
        /\ UNCHANGED <<sessions, audit, uuid, mailbox, maint>>
        /\ UNCHANGED <<store_vars, now>>

\* The error handle_login returns before it writes, "none" when it goes on.
login_check(username, password) ==
    LET rows == query(users, "username", username)
    IN  IF rows = <<>> THEN "InvalidCredentials"
        ELSE IF ~PasswordHash_new(rows[1].password_hash) THEN "Internal"
        ELSE IF ~verify_password(password, rows[1].password_hash)
             THEN "InvalidCredentials"
        ELSE "none"

handle_login ==
    /\ Receiving("auth", "login")
    /\ LET m == recv(mailbox["auth"])
           err == login_check(m.username, m.password)
           user == extract_user_from_batch(query(users, "username", m.username)[1])
       IN  IF err # "none"
           THEN ReplyNow("auth", FALSE, err, NoUser, GarbageToken, <<>>)
           ELSE /\ Begin("auth", <<"append", "sessions">>, user, NoRow,
                         encode(user, now, now + ExpiryHours(m.remember_me)),
                         FALSE)
                /\ UNCHANGED <<client, last>>
    /\ UNCHANGED <<users, sessions, audit, uuid, maint, seen>>
    /\ UNCHANGED <<store_vars, now>>

\* A row of the sessions table; it is written with is_revoked = false.
SessionRow(token, user) ==
    [token_hash |-> token_hash(token), user_id |-> user.user_id,
     expires_at |-> token.exp, is_revoked |-> FALSE]

\* store.append(TABLE_SESSIONS, session_batch) of handle_login returns.
append_sessions ==
    LET r == actor["auth"]
        err == IF r.conflict THEN "DeltaTable" ELSE "none"
    IN  /\ r.pc = <<"append", "sessions">>
        /\ sessions' = IF r.conflict THEN sessions
                       ELSE sessions \cup {SessionRow(r.token, r.user)}
        /\ Answer(r.msg, ~r.conflict, err, IF r.conflict THEN NoUser ELSE r.user,
                  IF r.conflict THEN GarbageToken ELSE r.token, <<>>)
        /\ actor' = [actor EXCEPT !["auth"] = Loop(err)]
        /\ seen' = IF r.conflict THEN seen ELSE [seen EXCEPT !.live = @ \cup {r.token}]
        /\ UNCHANGED <<users, audit, uuid, mailbox, maint>>
        /\ UNCHANGED <<store_vars, now>>

\* Variant of session_active that does not look at the sessions table.
session_active_unchecked(token) == TRUE

\* The query of handle_verify_token finds a row.
session_active(token) ==
    \E s \in sessions : s.token_hash = token_hash(token) /\ ~s.is_revoked

\* What handle_verify_token returns for a token: the user, or none.
verify_token(token) ==
    IF decode(token, now) /\ session_active(token)
    THEN handle_get_user(token.sub) ELSE NoUser

handle_verify_token ==
    /\ Receiving("auth", "verify_token")
    /\ LET m == recv(mailbox["auth"])
           user == verify_token(m.token)
       IN  ReplyNow("auth", user # NoUser, "none", user, m.token, <<>>)
    /\ UNCHANGED <<users, sessions, audit, uuid, maint, seen>>
    /\ UNCHANGED <<store_vars, now>>

handle_logout ==
    /\ Receiving("auth", "logout")
    /\ LET m == recv(mailbox["auth"])
       IN  Begin("auth", <<"delete", "sessions">>, NoUser, NoRow, m.token,
                 \E s \in sessions : s.token_hash = token_hash(m.token))
    /\ UNCHANGED <<users, sessions, audit, uuid, client, last, maint, seen>>
    /\ UNCHANGED <<store_vars, now>>

\* store.delete(TABLE_SESSIONS, ..) of handle_logout returns.
logout_delete ==
    LET r == actor["auth"]
        gone == {s \in sessions : s.token_hash = token_hash(r.token)}
    IN  /\ r.pc = <<"delete", "sessions">>
        /\ r.msg.kind = "logout"
        /\ sessions' = IF r.conflict THEN sessions ELSE sessions \ gone
        /\ Answer(r.msg, ~r.conflict, IF r.conflict THEN "DeltaTable" ELSE "none",
                  NoUser, r.token, <<>>)
        /\ seen' = IF r.conflict THEN seen
                   ELSE [seen EXCEPT !.live = @ \ {r.token},
                                     !.revoked = @ \cup {r.token}]
        /\ \E hit \in Hits(~r.conflict /\ gone # {}) :
              /\ actor' = [ActorsAfter("sessions", hit) EXCEPT !["auth"] =
                              Loop(IF r.conflict THEN "DeltaTable" ELSE "none")]
              /\ maint' = MaintAfter("sessions", hit)
        /\ UNCHANGED <<users, audit, uuid, mailbox>>
        /\ UNCHANGED <<store_vars, now>>

handle_approve ==
    /\ Receiving("auth", "approve_user")
    /\ LET m == recv(mailbox["auth"])
           user == handle_get_user(m.user_id)
           row == UserRow(m.user_id, user.username, user.email, APPROVED_USER,
                          default_role(m.tier), m.tier)
       IN  IF user = NoUser
           THEN ReplyNow("auth", FALSE, "UserNotFound", NoUser, GarbageToken, <<>>)
           ELSE /\ Begin("auth", <<"delete", "users">>,
                         extract_user_from_batch(row), row, GarbageToken, TRUE)
                /\ UNCHANGED <<client, last>>
    /\ UNCHANGED <<users, sessions, audit, uuid, maint, seen>>
    /\ UNCHANGED <<store_vars, now>>

\* The error handle_change_password returns before it writes.
change_password_check(user_id, old_password, new_password) ==
    LET rows == query(users, "user_id", user_id)
    IN  IF len(new_password) < 8 THEN "PasswordTooWeak"
        ELSE IF rows = <<>> THEN "UserNotFound"
        ELSE IF ~PasswordHash_new(rows[1].password_hash) THEN "Internal"
        ELSE IF ~verify_password(old_password, rows[1].password_hash)
             THEN "InvalidCredentials"
        ELSE "none"

handle_change_password ==
    /\ Receiving("auth", "change_password")
    /\ LET m == recv(mailbox["auth"])
           err == change_password_check(m.user_id, m.password, m.new_password)
           user == extract_user_from_batch(query(users, "user_id", m.user_id)[1])
           row == UserRow(m.user_id, user.username, user.email,
                          hash_password(m.new_password), user.role, user.tier)
       IN  IF err # "none"
           THEN ReplyNow("auth", FALSE, err, NoUser, GarbageToken, <<>>)
           ELSE /\ Begin("auth", <<"delete", "users">>, NoUser, row,
                         GarbageToken, TRUE)
                /\ UNCHANGED <<client, last>>
    /\ UNCHANGED <<users, sessions, audit, uuid, maint, seen>>
    /\ UNCHANGED <<store_vars, now>>

\* store.delete(TABLE_USERS, "user_id = '{user_id}'") of handle_approve and
\* handle_change_password returns: an error ends the handler, otherwise the
\* handler goes on to the append.
rewrite_delete ==
    LET r == actor["auth"]
        kept == SelectSeq(users, LAMBDA row : ~Selects(row, "user_id", r.msg.user_id))
    IN  /\ r.pc = <<"delete", "users">>
        /\ r.msg.kind \in {"approve_user", "change_password"}
        /\ IF r.conflict
           THEN /\ users' = users
                /\ Answer(r.msg, FALSE, "DeltaTable", NoUser, GarbageToken, <<>>)
                /\ actor' = [actor EXCEPT !["auth"] = Loop("DeltaTable")]
                /\ maint' = maint
           ELSE /\ users' = kept
                /\ UNCHANGED <<client, last>>
                /\ \E hit \in Hits(kept # users) :
                      /\ actor' = [ActorsAfter("users", hit) EXCEPT !["auth"] =
                                      [r EXCEPT !.pc = <<"append", "users">>]]
                      /\ maint' = MaintAfter("users", hit)
        /\ UNCHANGED <<sessions, audit, uuid, mailbox, seen>>
        /\ UNCHANGED <<store_vars, now>>

handle_reject ==
    /\ Receiving("auth", "reject_user")
    /\ LET m == recv(mailbox["auth"])
       IN  Begin("auth", <<"delete", "users">>, NoUser, NoRow, GarbageToken,
                 \E row \in Range(users) :
                    Selects(row, "user_id", m.user_id) /\ row.role = "pending")
    /\ UNCHANGED <<users, sessions, audit, uuid, client, last, maint, seen>>
    /\ UNCHANGED <<store_vars, now>>

\* store.delete(TABLE_USERS, "user_id = '{user_id}' AND role = 'pending'") of
\* handle_reject returns; AND binds tighter than the OR a quoted id brings.
reject_delete ==
    LET r == actor["auth"]
        w == sql_where(r.msg.user_id)
        kept == SelectSeq(users, LAMBDA row :
                    ~(\/ row.user_id = w.literal /\ (w.or_true \/ row.role = "pending")
                      \/ w.or_true /\ row.role = "pending"))
    IN  /\ r.pc = <<"delete", "users">>
        /\ r.msg.kind = "reject_user"
        /\ users' = IF r.conflict THEN users ELSE kept
        /\ Answer(r.msg, ~r.conflict, "none", NoUser, GarbageToken, <<>>)
        /\ \E hit \in Hits(~r.conflict /\ kept # users) :
              /\ actor' = [ActorsAfter("users", hit) EXCEPT !["auth"] = ActorIdle]
              /\ maint' = MaintAfter("users", hit)
        /\ UNCHANGED <<sessions, audit, uuid, mailbox, seen>>
        /\ UNCHANGED <<store_vars, now>>

\* The handlers that only read: GetPendingUsers, GetUser, GetAllUsers.
handle_read ==
    /\ \E kind \in {"get_pending_users", "get_user", "get_all_users"} :
          Receiving("auth", kind)
    /\ LET m == recv(mailbox["auth"])
           user == IF m.kind = "get_user" THEN handle_get_user(m.user_id) ELSE NoUser
           rows == CASE m.kind = "get_pending_users" -> handle_get_pending
                     [] m.kind = "get_all_users" -> handle_get_all_users
                     [] OTHER -> <<>>
       IN  ReplyNow("auth", m.kind = "get_user" => user # NoUser, "none", user,
                    GarbageToken, rows)
    /\ UNCHANGED <<users, sessions, audit, uuid, maint, seen>>
    /\ UNCHANGED <<store_vars, now>>

\* ---------------------------------------- auth actor: gdpr_delete_user
\* The table after table in tables_with_user (schema::all_tables order).
Following(table) ==
    CASE table = "users" -> "sessions"
      [] table = "sessions" -> "audit_log"
      [] table = "audit_log" -> "user_actions"
      [] OTHER -> "none"

handle_gdpr_delete ==
    /\ Receiving("auth", "gdpr_delete")
    /\ LET m == recv(mailbox["auth"])
       IN  Begin("auth", <<"delete", "users">>, NoUser, NoRow, GarbageToken,
                 Reads("users", "user_id", m.user_id))
    /\ UNCHANGED <<users, sessions, audit, uuid, client, last, maint, seen>>
    /\ UNCHANGED <<store_vars, now>>

\* One delete of the first loop of gdpr_delete_user returns; an error is
\* logged and the loop goes on.
gdpr_delete ==
    LET r == actor["auth"]
        table == r.pc[2]
        gone(row) == ~r.conflict /\ Selects(row, "user_id", r.msg.user_id)
        next == IF Following(table) = "none" THEN <<"vacuum", "users">>
                ELSE <<"delete", Following(table)>>
    IN  /\ r.pc[1] = "delete"
        /\ r.msg.kind = "gdpr_delete"
        /\ users' = IF table = "users"
                    THEN SelectSeq(users, LAMBDA row : ~gone(row)) ELSE users
        /\ sessions' = IF table = "sessions"
                       THEN {s \in sessions : ~gone(s)} ELSE sessions
        /\ audit' = IF table = "audit_log"
                    THEN SelectSeq(audit, LAMBDA row : ~gone(row)) ELSE audit
        /\ \E hit \in Hits(\E row \in Rows(table) : gone(row)) :
              /\ actor' = [ActorsAfter(table, hit) EXCEPT !["auth"] =
                              [r EXCEPT !.pc = next,
                                        !.reads = /\ next[1] = "delete"
                                                  /\ Reads(next[2], "user_id",
                                                           r.msg.user_id),
                                        !.conflict = FALSE]]
              /\ maint' = MaintAfter(table, hit)
        /\ UNCHANGED <<uuid, mailbox, client, last, seen>>
        /\ UNCHANGED <<store_vars, now>>

\* One vacuum(table, 0, false) of the second loop returns; after the last
\* one gdpr_delete_user returns Ok.
gdpr_vacuum ==
    LET r == actor["auth"]
    IN  /\ r.pc[1] = "vacuum"
        /\ IF Following(r.pc[2]) = "none"
           THEN /\ Answer(r.msg, TRUE, "none", NoUser, GarbageToken, <<>>)
                /\ actor' = [actor EXCEPT !["auth"] = ActorIdle]
           ELSE /\ actor' = [actor EXCEPT !["auth"].pc = <<"vacuum", Following(r.pc[2])>>]
                /\ UNCHANGED <<client, last>>
        /\ UNCHANGED <<users, sessions, audit, uuid, mailbox, maint, seen>>
        /\ UNCHANGED <<store_vars, now>>

\* --------------------------------------------------------- audit actor
\* ActionType, audit/types.rs:8-35, and ActionType::as_str, types.rs:38-61.
ActionType ==
    {"Login", "Logout", "Register", "PasswordChange", "UserApproved",
     "UserRejected", "UserDeleted", "QueryExecuted", "DataUpload", "DataExport",
     "StrategyCreated", "StrategyUpdated", "StrategyDeleted", "BacktestRun",
     "LiveTradeStart", "LiveTradeStop", "AdminAction", "ConfigChange",
     "SubscriptionChange", "PaymentReceived"}
as_str(action) ==
    CASE action = "Login" -> "login"
      [] action = "Logout" -> "logout"
      [] action = "Register" -> "register"
      [] action = "PasswordChange" -> "password_change"
      [] action = "UserApproved" -> "user_approved"
      [] action = "UserRejected" -> "user_rejected"
      [] action = "UserDeleted" -> "user_deleted"
      [] action = "QueryExecuted" -> "query_executed"
      [] action = "DataUpload" -> "data_upload"
      [] action = "DataExport" -> "data_export"
      [] action = "StrategyCreated" -> "strategy_created"
      [] action = "StrategyUpdated" -> "strategy_updated"
      [] action = "StrategyDeleted" -> "strategy_deleted"
      [] action = "BacktestRun" -> "backtest_run"
      [] action = "LiveTradeStart" -> "live_trade_start"
      [] action = "LiveTradeStop" -> "live_trade_stop"
      [] action = "AdminAction" -> "admin_action"
      [] action = "ConfigChange" -> "config_change"
      [] action = "SubscriptionChange" -> "subscription_change"
      [] action = "PaymentReceived" -> "payment_received"

\* ActionType::is_billable, audit/types.rs:89-98.
is_billable(action) ==
    action \in {"QueryExecuted", "DataUpload", "DataExport", "BacktestRun",
                "LiveTradeStart"}

\* The counter of BillingSummary that the match of handle_billing_summary
\* adds the count of an action string to, audit/actor.rs:215-222.
Tally(action) ==
    CASE action = "query_executed" -> "total_queries"
      [] action = "data_upload" -> "total_uploads"
      [] action = "data_export" -> "total_exports"
      [] action = "backtest_run" -> "total_backtests"
      [] action = "live_trade_start" -> "total_live_trades"
      [] OTHER -> "none"

\* handle_log builds the row: the time of the call gives date_partition.
\* seq is the place of the call among the log calls enqueued; it is not a
\* column of the table.
AuditRow(m, clock) ==
    [user_id |-> m.user_id, username |-> m.username, action |-> as_str(m.action),
     date_partition |-> clock, seq |-> m.seq]

handle_log ==
    /\ Receiving("audit", "log")
    /\ Begin("audit", <<"append", "audit_log">>, NoUser,
             AuditRow(recv(mailbox["audit"]), now), GarbageToken, FALSE)
    /\ UNCHANGED <<users, sessions, audit, uuid, client, last, maint, seen>>
    /\ UNCHANGED <<store_vars, now>>

\* store.append(TABLE_AUDIT_LOG, batch) of handle_log returns; Log has no
\* reply, an error is logged (audit/actor.rs:102-104).  The row fails a
\* delete in flight whose predicate selects it.
append_audit_log ==
    LET r == actor["audit"]
        row == r.row
        hit(rec) == /\ ~r.conflict
                    /\ rec.pc = <<"delete", "audit_log">>
                    /\ Selects(row, "user_id", rec.msg.user_id)
    IN  /\ r.pc = <<"append", "audit_log">>
        /\ audit' = IF r.conflict THEN audit ELSE Append(audit, row)
        /\ actor' = [a \in Actors |->
                        IF a = "audit"
                        THEN Loop(IF r.conflict THEN "DeltaTable" ELSE "none")
                        ELSE IF hit(actor[a])
                             THEN [actor[a] EXCEPT !.conflict = TRUE]
                             ELSE actor[a]]
        /\ UNCHANGED <<users, sessions, uuid, mailbox, client, last, maint, seen>>
        /\ UNCHANGED <<store_vars, now>>

\* DeltaStore::sql, store.rs:289-308: the table is registered in a fresh
\* session context under the name "t", and the statement is planned there;
\* a statement that reads FROM another name finds no such table, which is a
\* DataFusion error.
sql(from, rows) ==
    IF from = "t" THEN [ok |-> TRUE, rows |-> rows]
    ELSE [ok |-> FALSE, rows |-> <<>>]

\* The statements of the audit actor read FROM audit_log
\* (audit/actor.rs:155, 163, 180).
AuditFrom == "audit_log"

Tallies == {"total_queries", "total_uploads", "total_exports",
            "total_backtests", "total_live_trades"}
NoSummary == [k \in Tallies \cup {"total_actions"} |-> 0]

\* handle_billing_summary, audit/actor.rs:169-228: the rows of the user in
\* the date range, grouped by action; every group adds to total_actions,
\* and to the counter of its action when it has one.
handle_billing_summary(user_id, start_date, end_date) ==
    LET selected == SelectSeq(audit, LAMBDA row :
                        /\ Selects(row, "user_id", user_id)
                        /\ row.date_partition >= start_date
                        /\ row.date_partition <= end_date)
        batches == sql(AuditFrom, selected)
        cnt(k) == Cardinality({i \in 1 .. Len(batches.rows) :
                                  Tally(batches.rows[i].action) = k})
    IN  [ok |-> batches.ok,
         summary |-> [k \in Tallies \cup {"total_actions"} |->
                         IF k = "total_actions" THEN Len(batches.rows) ELSE cnt(k)]]

\* GetUserActivity, BillingSummary, GetRecentEvents: queries, then the reply.
\* handle_user_activity and handle_recent_events answer a failed query with
\* the empty list (unwrap_or_default, audit/actor.rs:158, 166).
audit_read ==
    /\ \E kind \in {"get_user_activity", "billing_summary", "get_recent_events"} :
          Receiving("audit", kind)
    /\ LET m == recv(mailbox["audit"])
           entries == IF m.kind = "get_recent_events" THEN sql(AuditFrom, audit)
                      ELSE sql(AuditFrom, SelectSeq(audit, LAMBDA row :
                                              Selects(row, "user_id", m.user_id)))
           billing == handle_billing_summary(m.user_id, m.start_date, m.end_date)
       IN  IF m.kind = "billing_summary"
           THEN ReplyNow("audit", billing.ok,
                         IF billing.ok THEN "none" ELSE "DataFusion",
                         NoUser, GarbageToken,
                         IF billing.ok THEN <<billing.summary>> ELSE <<>>)
           ELSE ReplyNow("audit", TRUE, "none", NoUser, GarbageToken, entries.rows)
    /\ UNCHANGED <<users, sessions, audit, uuid, maint, seen>>
    /\ UNCHANGED <<store_vars, now>>

\* AuditHandle::log, audit/actor.rs:285-298: tx.send(..).await on the
\* bounded channel.  With room in the mailbox the message is enqueued and
\* the call returns; with the mailbox full the call waits for a slot: its
\* message queues behind the mailbox, in the order of the calls, and the
\* caller is held in the send.
log_call(c, m) ==
    /\ client[c] = "idle"
    /\ m.from = c /\ m.kind = "log"
    /\ seen.sent < MaxLogs
    /\ mailbox' = [mailbox EXCEPT !["audit"] = Append(@, [m EXCEPT !.seq = seen.sent + 1])]
    /\ seen' = [seen EXCEPT !.sent = @ + 1]
    /\ client' = IF Len(mailbox["audit"]) < MailboxCap THEN client
                 ELSE [client EXCEPT ![c] = "sending"]
    /\ UNCHANGED <<users, sessions, audit, uuid, actor, last, maint>>
    /\ UNCHANGED <<store_vars, now>>

\* The send of a held caller gets its slot: the call returns.
log_returns(c) ==
    /\ client[c] = "sending"
    /\ \A i \in 1 .. Len(mailbox["audit"]) :
          mailbox["audit"][i].from = c /\ mailbox["audit"][i].kind = "log"
             => i <= MailboxCap
    /\ client' = [client EXCEPT ![c] = "idle"]
    /\ UNCHANGED <<users, sessions, audit, uuid, mailbox, actor, last, maint, seen>>
    /\ UNCHANGED <<store_vars, now>>

\* ------------------------------------------------------ store failures
\* The store call a handler has in flight fails in the object store (an I/O
\* error, a write that cannot be completed): the call will return Err.
store_fault(a) ==
    /\ actor[a].pc # <<"idle", "none">>
    /\ ~actor[a].conflict
    /\ actor' = [actor EXCEPT ![a].conflict = TRUE]
    /\ UNCHANGED <<users, sessions, audit, uuid, mailbox, client, last, maint, seen>>
    /\ UNCHANGED <<store_vars, now>>

\* The first query of a handler fails.  The handlers that return a Result
\* pass the error on with `?` (handle_register, handle_login,
\* handle_change_password, handle_billing_summary); handle_get_user and
\* handle_verify_token turn it into None with .ok()?, so that handle_approve
\* returns UserNotFound; the handlers that return a Vec turn it into the
\* empty list with unwrap_or_default.
query_error(a) ==
    /\ actor[a].pc = <<"idle", "none">>
    /\ mailbox[a] # <<>>
    /\ LET kind == recv(mailbox[a]).kind
       IN  CASE kind \in {"register", "login", "change_password", "billing_summary"} ->
                  ReplyNow(a, FALSE, "DeltaTable", NoUser, GarbageToken, <<>>)
             [] kind = "approve_user" ->
                  ReplyNow(a, FALSE, "UserNotFound", NoUser, GarbageToken, <<>>)
             [] kind \in {"get_user", "verify_token"} ->
                  ReplyNow(a, FALSE, "none", NoUser, GarbageToken, <<>>)
             [] kind \in {"get_pending_users", "get_all_users",
                          "get_user_activity", "get_recent_events"} ->
                  ReplyNow(a, TRUE, "none", NoUser, GarbageToken, <<>>)
             [] OTHER -> FALSE
    /\ UNCHANGED <<users, sessions, audit, uuid, maint, seen>>
    /\ UNCHANGED <<store_vars, now>>

\* ------------------------------------------------ maintenance scheduler
\* The first store call of a task's loop body, and the one after a call.
\* run_once (maintenance.rs:172-194) deletes the expired sessions, compacts
\* every table and vacuums every table.
FirstCall(p) ==
    CASE p = "session_cleanup" -> <<"delete", "sessions">>
      [] p = "compaction" -> <<"compact", "users">>
      [] p = "z_order" -> <<"z_order", "sessions">>
      [] p = "vacuum" -> <<"vacuum", "users">>
      [] p = "run_once" -> <<"delete", "sessions">>
NextCall(p, pc) ==
    CASE p = "session_cleanup" -> <<"idle", "none">>
      [] p = "run_once" /\ pc[1] = "delete" -> <<"compact", "users">>
      [] p = "run_once" /\ pc = <<"compact", "user_actions">> -> <<"vacuum", "users">>
      [] OTHER -> IF Following(pc[2]) = "none" THEN <<"idle", "none">>
                  ELSE <<pc[1], Following(pc[2])>>

\* Variant of AfterCall: the error of a store call ends the task, as a `?`
\* on the call would.
AfterCall_abort(p, pc, ok) ==
    IF ok THEN NextCall(p, pc) ELSE <<"stopped", "none">>

\* Where a task goes when a store call has returned: the Err arm of each
\* match logs the error and falls through (maintenance.rs:63-69, 85-99,
\* 114-135, 150-165); run_once drops the results (177-190).
AfterCall(p, pc, ok) == NextCall(p, pc)

\* A task whose future has been dropped: its locals are gone.
Dropped(p) == [MaintIdle EXCEPT !.abort = "done", !.traced = maint[p].traced]

\* The task after its call in flight returned ok or an error.  The poll of
\* a task whose abort was requested ends at its next await point, where the
\* task is dropped.
Returned(p, ok) ==
    LET r == maint[p]
    IN  IF r.abort = "requested" THEN Dropped(p)
        ELSE [MaintIdle EXCEPT
                !.pc = AfterCall(p, r.pc, ok),
                !.traced = r.traced,
                !.calls = IF r.traced THEN Append(r.calls, r.pc) ELSE <<>>,
                !.failed = r.traced /\ (r.failed \/ ~ok)]

\* The loop body of a task starts: it makes its first store call; the
\* expired-session delete formats its predicate with the time of the call.
Start(p) ==
    /\ maint[p].pc = <<"idle", "none">>
    /\ maint[p].abort # "done"
    /\ maint' = [maint EXCEPT ![p] =
                    IF maint[p].abort = "requested" THEN Dropped(p)
                    ELSE [MaintIdle EXCEPT
                            !.pc = FirstCall(p),
                            !.cutoff = IF FirstCall(p)[1] = "delete" THEN now ELSE 0,
                            !.reads = /\ FirstCall(p)[1] = "delete"
                                      /\ \E s \in sessions : s.expires_at < now,
                            !.traced = maint[p].traced]]
    /\ UNCHANGED <<users, sessions, audit, uuid, mailbox, actor, client, last, seen>>
    /\ UNCHANGED <<store_vars, now>>

\* ticker.tick() of a task fires.
maint_tick(p) == p \in MaintTasks /\ Start(p)

\* MaintenanceScheduler::run_once is called.
run_once == Start("run_once")

\* Variant of expired_delete with the comparison turned round: the sessions
\* that expire after the cutoff are deleted.
expired_delete_inverted(p) ==
    LET r == maint[p]
        gone == {s \in sessions : s.expires_at > r.cutoff}
    IN  /\ r.pc = <<"delete", "sessions">>
        /\ r.abort # "done"
        /\ sessions' = IF r.conflict THEN sessions ELSE sessions \ gone
        /\ \E hit \in Hits(~r.conflict /\ gone # {}) :
              /\ actor' = ActorsAfter("sessions", hit)
              /\ maint' = [MaintAfter("sessions", hit) EXCEPT
                              ![p] = Returned(p, ~r.conflict)]
        /\ UNCHANGED <<users, audit, uuid, mailbox, client, last, seen>>
        /\ UNCHANGED <<store_vars, now>>

\* store.delete(TABLE_SESSIONS, "expires_at < '{now}'") of task p returns.
expired_delete(p) ==
    LET r == maint[p]
        gone == {s \in sessions : s.expires_at < r.cutoff}
    IN  /\ r.pc = <<"delete", "sessions">>
        /\ r.abort # "done"
        /\ sessions' = IF r.conflict THEN sessions ELSE sessions \ gone
        /\ \E hit \in Hits(~r.conflict /\ gone # {}) :
              /\ actor' = ActorsAfter("sessions", hit)
              /\ maint' = [MaintAfter("sessions", hit) EXCEPT
                              ![p] = Returned(p, ~r.conflict)]
        /\ UNCHANGED <<users, audit, uuid, mailbox, client, last, seen>>
        /\ UNCHANGED <<store_vars, now>>

session_cleanup == expired_delete("session_cleanup")

\* store.compact(table) or store.z_order(table, ..) of a task returns, and
\* the task goes on to its next table; an error is logged.  The rows of the
\* table stay as they are.
maint_optimize(p) ==
    LET r == maint[p]
    IN  /\ r.pc[1] \in {"compact", "z_order"}
        /\ r.abort # "done"
        /\ \E hit \in Hits(~r.conflict) :
              /\ actor' = ActorsAfter(r.pc[2], hit)
              /\ maint' = [MaintAfter(r.pc[2], hit) EXCEPT ![p] =
                              Returned(p, ~r.conflict)]
        /\ UNCHANGED <<users, sessions, audit, uuid, mailbox, client, last, seen>>
        /\ UNCHANGED <<store_vars, now>>

\* store.vacuum(table, retention_hours, false) of a task returns, and the
\* task goes on to its next table; an error is logged.  With the configured
\* retention no row of a table's head is touched.
maint_vacuum(p) ==
    LET r == maint[p]
    IN  /\ r.pc[1] = "vacuum"
        /\ r.abort # "done"
        /\ maint' = [maint EXCEPT ![p] = Returned(p, ~r.conflict)]
        /\ UNCHANGED <<users, sessions, audit, uuid, mailbox, actor, client, last, seen>>
        /\ UNCHANGED <<store_vars, now>>

\* MaintenanceScheduler::stop, also run by Drop: handle.abort() on every
\* task, without awaiting the handles.  abort() asks the runtime to cancel
\* the task and returns: a task parked at an await point is never polled
\* again, a task a worker thread is polling (polled) goes on to its next
\* await point, and the blocking file operation it issued there completes.
stop ==
    /\ \E p \in MaintTasks : maint[p].abort = "none"
    /\ \E polled \in SUBSET MaintTasks :
          maint' = [p \in Callers |->
                       IF p \in polled
                       THEN [maint[p] EXCEPT !.abort = "requested"]
                       ELSE IF p \in MaintTasks THEN Dropped(p)
                       ELSE maint[p]]
    /\ UNCHANGED <<users, sessions, audit, uuid, mailbox, actor, client, last, seen>>
    /\ UNCHANGED <<store_vars, now>>

\* The store call a task has in flight fails in the object store (an I/O
\* error, a directory that cannot be listed): the call will return Err.
store_error(p) ==
    /\ maint[p].pc # <<"idle", "none">>
    /\ ~maint[p].conflict
    /\ maint' = [maint EXCEPT ![p].conflict = TRUE]
    /\ UNCHANGED <<users, sessions, audit, uuid, mailbox, actor, client, last, seen>>
    /\ UNCHANGED <<store_vars, now>>

\* ------------------------------------------------ actors: the calls made
\* The messages the handle methods build.
Register(c, username, email, password, tier) ==
    [Msg("register", c) EXCEPT !.username = username, !.email = email,
                               !.password = password, !.tier = tier]
Login(c, username, password, remember_me) ==
    [Msg("login", c) EXCEPT !.username = username, !.password = password,
                            !.remember_me = remember_me]
VerifyToken(c, token) == [Msg("verify_token", c) EXCEPT !.token = token]
Logout(c, token) == [Msg("logout", c) EXCEPT !.token = token]
ApproveUser(c, user_id, tier) ==
    [Msg("approve_user", c) EXCEPT !.user_id = user_id, !.tier = tier]
RejectUser(c, user_id) == [Msg("reject_user", c) EXCEPT !.user_id = user_id]
GetUser(c, user_id) == [Msg("get_user", c) EXCEPT !.user_id = user_id]
ChangePassword(c, user_id, old_password, new_password) ==
    [Msg("change_password", c) EXCEPT !.user_id = user_id,
                                      !.password = old_password,
                                      !.new_password = new_password]
GdprDelete(c, user_id) == [Msg("gdpr_delete", c) EXCEPT !.user_id = user_id]
Log(c, user_id, username) ==
    [Msg("log", c) EXCEPT !.user_id = user_id, !.username = username]

\* Two cloned handles register users, approve them, change passwords and
\* delete users; some names and ids hold a quote.
RegisterCalls(c) ==
    {Register(c, "alice", "alice@example.com", "StrongP@ss123", "pioneer"),
     Register(c, "bob", "bob@example.com", "StrongP@ss123", "free"),
     Register(c, "alice", "bob@example.com", "StrongP@ss123", "free"),
     Register(c, "bob", "bob@example.com", "short", "free"),
     Register(c, "al", "bob@example.com", "StrongP@ss123", "free"),
     Register(c, "bob", "alice.example.com", "StrongP@ss123", "free"),
     Register(c, QuotedName, "alice@example.com", "StrongP@ss123", "free"),
     Register(c, QuotedName, "bob@example.com", "StrongP@ss123", "free")}
AccountCalls(c) ==
    {ApproveUser(c, "u1", "pioneer"),
     ChangePassword(c, "u1", "StrongP@ss123", "NewP@ssw0rd!"),
     GdprDelete(c, "u1")}

NextRegister ==
    \/ \E c \in Clients : \E m \in RegisterCalls(c) : client_send(c, "auth", m)
    \/ \E m \in AccountCalls("c1") : client_send("c1", "auth", m)
    \/ handle_register
    \/ append_users
    \/ handle_approve
    \/ handle_change_password
    \/ rewrite_delete
    \/ handle_gdpr_delete
    \/ gdpr_delete
    \/ gdpr_vacuum

SpecRegister == Init /\ [][NextRegister]_vars

\* The two actors of one process: two cloned handles send to the auth actor
\* and to the audit actor.
AuthCalls(c) ==
    {Register(c, "alice", "alice@example.com", "StrongP@ss123", "pioneer"),
     Login(c, "alice", "StrongP@ss123", FALSE),
     RejectUser(c, "u1"),
     GdprDelete(c, "u1"),
     Msg("get_pending_users", c)}
    \cup {Logout(c, token) : token \in seen.live}
AuditCalls(c) ==
    {Log(c, "u1", "alice"), Msg("get_recent_events", c)}

NextActors ==
    \/ \E c \in Clients : \E m \in AuthCalls(c) : client_send(c, "auth", m)
    \/ \E c \in Clients : \E m \in AuditCalls(c) : client_send(c, "audit", m)
    \/ handle_register
    \/ append_users
    \/ handle_login
    \/ append_sessions
    \/ handle_logout
    \/ logout_delete
    \/ handle_reject
    \/ reject_delete
    \/ handle_read
    \/ handle_gdpr_delete
    \/ gdpr_delete
    \/ gdpr_vacuum
    \/ handle_log
    \/ append_audit_log
    \/ audit_read

SpecActors == Init /\ [][NextActors]_vars

\* The actors next to the maintenance scheduler, all on one DeltaStore: one
\* handle sends to the auth actor, one to the audit actor, and the
\* scheduler's tasks tick.
OwnerCalls ==
    {Register("c1", "alice", "alice@example.com", "StrongP@ss123", "pioneer"),
     Login("c1", "alice", "StrongP@ss123", FALSE),
     GdprDelete("c1", "u1")}
    \cup {Logout("c1", token) : token \in seen.live}

NextOwnership ==
    \/ \E m \in OwnerCalls : client_send("c1", "auth", m)
    \/ client_send("c2", "audit", Log("c2", "u1", "alice"))
    \/ handle_register
    \/ append_users
    \/ handle_login
    \/ append_sessions
    \/ handle_logout
    \/ logout_delete
    \/ handle_gdpr_delete
    \/ gdpr_delete
    \/ gdpr_vacuum
    \/ handle_log
    \/ append_audit_log
    \/ \E p \in Rewriters : maint_tick(p)
    \/ session_cleanup
    \/ \E p \in Rewriters : maint_optimize(p)

SpecOwnership == Init /\ [][NextOwnership]_vars


\* ------------------------------------------------------------------ C14
\* The parties of the process that have a mutating store operation in
\* flight against a table.
Mutating == {"append", "delete", "compact", "z_order"}
Writers(table) ==
    {a \in Actors : actor[a].pc[2] = table /\ actor[a].pc[1] \in Mutating}
      \cup {p \in Callers : maint[p].pc[2] = table /\ maint[p].pc[1] \in Mutating}

\* C14, as the specification states it: at every moment at most one task of
\* the process (a task of the maintenance scheduler, the auth actor, the
\* audit actor) has an append, delete, compact or z_order in flight
\* against any given table.
C14_AsStated ==
    \A i \in 1 .. Len(all_tables) : Cardinality(Writers(all_tables[i])) <= 1

\* ------------------------------------------------------------------ C15
\* What a step does to the mailbox and the handler of an actor.
Enqueued(a) ==
    /\ Len(mailbox'[a]) = Len(mailbox[a]) + 1
    /\ SubSeq(mailbox'[a], 1, Len(mailbox[a])) = mailbox[a]
Dequeued(a) ==
    /\ mailbox[a] # <<>>
    /\ mailbox'[a] = Tail(mailbox[a])
Busy(rec) == rec.pc # <<"idle", "none">>

C15_Step(a) ==
    \* the mailbox changes at its two ends only
    /\ mailbox'[a] # mailbox[a] => Enqueued(a) \/ Dequeued(a)
    \* a message leaves the mailbox when no handler runs, it is the oldest,
    \* and it is the one handled
    /\ Dequeued(a) /\ ~Enqueued(a) =>
          /\ ~Busy(actor[a])
          /\ \/ Busy(actor'[a]) /\ actor'[a].msg = Head(mailbox[a])
             \/ /\ ~Busy(actor'[a])
                /\ last'.msg = Head(mailbox[a])
                /\ client'[Head(mailbox[a]).from] = "idle"
    \* a handler starts store operations for the message it took only
    /\ Busy(actor'[a]) /\ actor'[a].pc # actor[a].pc =>
          \/ Busy(actor[a]) /\ actor'[a].msg = actor[a].msg
          \/ ~Busy(actor[a]) /\ Dequeued(a)
    \* a handler that finishes sends the reply to its message
    /\ Busy(actor[a]) /\ ~Busy(actor'[a]) /\ actor[a].msg.kind # "log" =>
          /\ last'.msg = actor[a].msg
          /\ client'[actor[a].msg.from] = "idle"
          /\ mailbox'[a] = mailbox[a]

\* C15: each actor handles its messages one at a time in the order they
\* were enqueued; the handler of a message starts no store operation before
\* the handler of the message before it has finished and replied, whatever
\* the cloned handles send meanwhile.
C15_OneAtATime == [][\A a \in Actors : C15_Step(a)]_vars

\* A handler is in a store call while a message of the other handle waits
\* in the mailbox, after an earlier reply was sent.
C15_Witness ==
    /\ Busy(actor["auth"])
    /\ mailbox["auth"] # <<>>
    /\ Head(mailbox["auth"]).from # actor["auth"].msg.from
    /\ last.msg.kind # "none"
    /\ mailbox["audit"] # <<>>

\* ------------------------------------------------------------------ C16
\* C16, as the specification states it: whatever register, approve_user,
\* change_password and gdpr_delete calls the handles of one auth actor send,
\* no two rows of the users table share a username and no two share an
\* email.
C16_AsStated ==
    \A i, j \in 1 .. Len(users) :
        i # j => /\ users[i].username # users[j].username
                 /\ users[i].email # users[j].email

\* ------------------------------------------------------------------ C17
\* Two cloned handles log alice in, verify tokens and log out, while the
\* clock advances and the scheduler cleans up expired sessions.  A handle
\* sends the tokens login returned, a string that is no token, and the token
\* anyone who knows the secret can sign for a user (LakehouseConfig::new
\* falls back to a fixed secret).
SignedTokens ==
    {encode(extract_user_from_batch(row), now, now + ExpiryHours(FALSE)) :
        row \in Range(users)}
SessionCalls(c) ==
    {Login(c, "alice", "StrongP@ss123", FALSE)}
    \cup {Register(c, "alice", "alice@example.com", "StrongP@ss123", "pioneer") :
            x \in {c} \cap {"c1"}}
    \cup {VerifyToken(c, token) :
            token \in seen.live \cup seen.revoked \cup SignedTokens \cup {GarbageToken}}
    \cup {Logout(c, token) : token \in seen.live \cup seen.revoked}

NextSessions ==
    \/ \E c \in Clients : \E m \in SessionCalls(c) : client_send(c, "auth", m)
    \/ handle_register
    \/ append_users
    \/ handle_login
    \/ append_sessions
    \/ handle_verify_token
    \/ handle_logout
    \/ logout_delete
    \/ maint_tick("session_cleanup")
    \/ session_cleanup
    \/ Tick

SpecSessions == Init /\ [][NextSessions]_vars

\* The last reply is verify_token's, and it carries a user.
Verified == last.msg.kind = "verify_token" /\ last.ok

AdminCalls ==
    {Register("c1", "alice", "alice@example.com", "StrongP@ss123", "pioneer"),
     Register("c1", "bob", "bob@example.com", "StrongP@ss123", "free"),
     ApproveUser("c1", "u1", "pioneer"),
     ApproveUser("c1", "u2", "free"),
     ApproveUser("c1", "u9", "free"),
     ApproveUser("c1", QuotedId, "free"),
     ChangePassword("c1", "u1", "StrongP@ss123", "NewP@ssw0rd!"),
     ChangePassword("c1", "u1", "NewP@ssw0rd!", "StrongP@ss123"),
     ChangePassword("c1", "u1", "StrongP@ss123", "short"),
     ChangePassword("c1", "u9", "StrongP@ss123", "NewP@ssw0rd!"),
     Msg("get_pending_users", "c1"),
     GetUser("c1", "u1")}
LoginCalls(c) ==
    {Login(c, "alice", "StrongP@ss123", FALSE),
     Login(c, "alice", "NewP@ssw0rd!", TRUE)}

NextAccounts ==
    \/ \E m \in AdminCalls : client_send("c1", "auth", m)
    \/ \E c \in Clients : \E m \in LoginCalls(c) : client_send(c, "auth", m)
    \/ handle_register
    \/ append_users
    \/ handle_login
    \/ append_sessions
    \/ handle_approve
    \/ handle_change_password
    \/ rewrite_delete
    \/ handle_read

SpecAccounts == Init /\ [][NextAccounts]_vars

\* C18, as the specification states it: a user that approve_user has
\* promoted still carries the hash of the password P written by register or
\* by the last change_password, so login(username, P) succeeds.
C18_AsStated ==
    \A i \in 1 .. Len(users) :
        users[i].role # "pending" =>
            /\ users[i].password_hash = hash_password(seen.password[users[i].username])
            /\ login_check(users[i].username, seen.password[users[i].username]) = "none"

\* ------------------------------------------------------------------ C19
\* The rows of the users table (after the step) whose user_id is this one.
RowsOf(user_id) == SelectSeq(users', LAMBDA row : row.user_id = user_id)
Known(user_id) == \E row \in Range(users) : row.user_id = user_id

\* handle_approve returns Ok: its append has returned.
ApproveOk ==
    /\ actor["auth"].pc = <<"append", "users">>
    /\ actor["auth"].msg.kind = "approve_user"
    /\ ~Busy(actor'["auth"])

C19_Step ==
    /\ ApproveOk =>
          LET m == actor["auth"].msg
          IN  /\ last'.ok
              /\ Len(RowsOf(m.user_id)) = 1
              /\ RowsOf(m.user_id)[1].role = default_role(m.tier)
              /\ RowsOf(m.user_id)[1].tier = m.tier
              /\ \A i \in 1 .. Len(users') :
                    users'[i].role = "pending" => users'[i].user_id # m.user_id
    /\ Receiving("auth", "approve_user") /\ Dequeued("auth")
         /\ ~Known(recv(mailbox["auth"]).user_id) =>
          /\ ~Busy(actor'["auth"])
          /\ ~last'.ok
          /\ last'.msg = recv(mailbox["auth"])
          /\ users' = users

\* C19, as the specification states it: when approve_user(user_id, tier)
\* succeeds there is exactly one users row for user_id, with role
\* tier.default_role() and tier tier, and the user is no longer pending;
\* approve_user on a user_id that no row carries returns an error and
\* changes nothing.
C19_AsStated == [][C19_Step]_vars

\* ------------------------------------------------------------------ C20
\* handle_change_password returns Ok: its append has returned.
ChangeOk ==
    /\ actor["auth"].pc = <<"append", "users">>
    /\ actor["auth"].msg.kind = "change_password"
    /\ ~Busy(actor'["auth"])
\* login_check on the users table after the step.
login_after(username, password) ==
    LET rows == SelectSeq(users', LAMBDA row : Selects(row, "username", username))
    IN  IF rows = <<>> THEN "InvalidCredentials"
        ELSE IF ~PasswordHash_new(rows[1].password_hash) THEN "Internal"
        ELSE IF ~verify_password(password, rows[1].password_hash)
             THEN "InvalidCredentials"
        ELSE "none"

C20_Step ==
    /\ ChangeOk =>
          LET m == actor["auth"].msg
              username == actor["auth"].row.username
          IN  /\ last'.ok
              /\ login_after(username, m.new_password) = "none"
              /\ m.password # m.new_password =>
                    login_after(username, m.password) = "InvalidCredentials"
    /\ Receiving("auth", "change_password") /\ Dequeued("auth") =>
          LET m == recv(mailbox["auth"])
              rows == SelectSeq(users, LAMBDA row : row.user_id = m.user_id)
              weak == len(m.new_password) < 8
              wrong == /\ rows # <<>>
                       /\ m.password # seen.password[rows[1].username]
          IN  /\ weak => ~Busy(actor'["auth"]) /\ last'.err = "PasswordTooWeak"
              /\ ~weak /\ wrong =>
                    ~Busy(actor'["auth"]) /\ last'.err = "InvalidCredentials"
              /\ weak \/ wrong => last'.msg = m /\ ~last'.ok /\ users' = users

\* C20, as the specification states it: after change_password(user_id, old,
\* new) returns ok, login with the old password fails with
\* InvalidCredentials and login with the new one succeeds; with a new
\* password shorter than 8 characters it returns the weak-password error,
\* with a wrong old password InvalidCredentials, and in both cases the
\* stored hash stays as it is.
C20_AsStated == [][C20_Step]_vars

\* ================================================================ history
\* table.history(limit) of the table library: the commit infos of the log,
\* the newest commit first, at most limit of them (None: all of them).  The
\* list holds the versions the infos describe.
Least(a, b) == IF a <= b THEN a ELSE b
HistoryLimits == {1, 2, 10}
commit_infos(limit) ==
    [i \in 1 .. Least(limit, read_head + 1) |-> read_head - (i - 1)]

\* ci.read_version: the readVersion field of a commitInfo, the version the
\* writer had read when it prepared the commit.  A writer may leave the
\* field out, and the creating commit has read no version.
NoReadVersion == -1

\* The label history gives the info at 0-based position idx,
\* store.rs:410: ci.read_version.unwrap_or(idx as i64).
VersionLabel(read_version, idx) ==
    IF read_version = NoReadVersion THEN idx ELSE read_version

\* history, store.rs:397-421.  describes is the version of the commit the
\* entry was built from; it is not part of VersionInfo.
history(t, limit) ==
    /\ task[t].pc = "idle"
    /\ \E recorded \in BOOLEAN :
         LET commits == commit_infos(limit)
             read_version(v) == IF recorded /\ v > 0 THEN v - 1 ELSE NoReadVersion
             infos == [i \in 1 .. Len(commits) |->
                          [version |-> VersionLabel(read_version(commits[i]), i - 1),
                           operation |-> log[commits[i]].op,
                           describes |-> commits[i]]]
         IN  task' = [task EXCEPT ![t] =
                         [Done([Idle EXCEPT !.op = "history", !.base = read_head,
                                            !.want = limit],
                               read_head, EmptyRows, Len(commits))
                            EXCEPT !.versions = infos, !.base = read_head]]
    /\ UNCHANGED <<log, written, objects, now, modified>>
    /\ UNCHANGED actors

\* The table with its single writer, next to a task that asks for the
\* history of the table.
NextHistory ==
    \/ \E t \in Owner, b \in Batches : append_open(t, b)
    \/ \E t \in Owner : append_write(t)
    \/ \E t \in Owner : commit(t)
    \/ \E t \in Owner, p \in Preds : delete_open(t, p)
    \/ \E t \in Owner : delete_execute(t)
    \/ \E t \in Reader, limit \in HistoryLimits : history(t, limit)
    \/ \E t \in Tasks : Cancel(t)
    \/ \E t \in Tasks : Return(t)

SpecHistory == Init /\ [][NextHistory]_vars

\* C30: history(table, limit) returns the min(limit, head + 1) most recent
\* commit entries, and each entry carries the version of the commit it
\* describes and that commit's operation kind, so that no version is
\* repeated or missing.
C30_AsStated ==
    \A t \in Tasks :
        DoneOk(t, "history") =>
            LET h == task[t].versions
            IN  /\ Len(h) = Least(task[t].want, task[t].base + 1)
                /\ \A i \in 1 .. Len(h) :
                       /\ h[i].describes = task[t].base - (i - 1)
                       /\ h[i].version = h[i].describes
                       /\ h[i].operation = log[h[i].version].op

\* ============================================================== scheduler
\* The four tasks MaintenanceScheduler::start spawns and a caller of
\* run_once, on one DeltaStore; any store call may fail.  The tasks are
\* traced.
InitScheduler ==
    /\ log = (0 :> CreateEntry)
    /\ written = <<>>
    /\ objects = {}
    /\ now = 0
    /\ task = [t \in Tasks |-> Idle]
    /\ modified = Unrecorded
    /\ users = <<>>
    /\ sessions = {}
    /\ audit = <<>>
    /\ uuid = 0
    /\ mailbox = [a \in Actors |-> <<>>]
    /\ actor = [a \in Actors |-> ActorIdle]
    /\ client = [c \in Clients |-> "idle"]
    /\ last = NoReply
    /\ maint = [p \in Callers |-> [MaintIdle EXCEPT !.traced = TRUE]]
    /\ seen = NothingSeen

NextScheduler ==
    \/ \E p \in MaintTasks : maint_tick(p)
    \/ run_once
    \/ \E p \in {"session_cleanup", "run_once"} : expired_delete(p)
    \/ \E p \in Callers : maint_optimize(p)
    \/ \E p \in Callers : maint_vacuum(p)
    \/ \E p \in Callers : store_error(p)

SpecScheduler == InitScheduler /\ [][NextScheduler]_vars

\* ------------------------------------------------------------------ C28
\* The store calls of one iteration of each task, in order.
OnEach(op, tables) == [i \in 1 .. Len(tables) |-> <<op, tables[i]>>]
Iteration(p) ==
    CASE p = "session_cleanup" -> <<<<"delete", "sessions">>>>
      [] p = "compaction" -> OnEach("compact", all_tables)
      [] p = "z_order" -> OnEach("z_order", <<"sessions", "audit_log", "user_actions">>)
      [] p = "vacuum" -> OnEach("vacuum", all_tables)

InCall(p) == maint[p].pc # <<"idle", "none">>

C28_Step ==
    \A p \in MaintTasks :
        InCall(p) /\ maint'[p].pc # maint[p].pc =>
            LET k == Len(maint[p].calls) + 1
            IN  /\ Iteration(p)[k] = maint[p].pc
                /\ maint'[p].pc = IF k < Len(Iteration(p)) THEN Iteration(p)[k + 1]
                                  ELSE <<"idle", "none">>
                /\ \A q \in MaintTasks \ {p} : maint'[q].pc = maint[q].pc

C28_Ticking ==
    \A p \in MaintTasks :
        /\ maint[p].pc[1] # "stopped"
        /\ ~InCall(p) => ENABLED maint_tick(p)
        /\ ~InCall(p) /\ maint[p].calls # <<>> => maint[p].calls = Iteration(p)

\* C28: the tasks of the scheduler are independent and never abort on a
\* failure: when a store call of an iteration fails, the iteration goes on
\* to the remaining tables, the task can tick again after the iteration,
\* and no step of one task changes where another task is.
C28_Independent == []C28_Ticking /\ [][C28_Step]_vars

\* An iteration of compaction had a failed call and has processed all four
\* tables, while the vacuum task is in a call that will fail.
C28_Witness ==
    /\ ~InCall("compaction")
    /\ maint["compaction"].failed
    /\ maint["compaction"].calls = Iteration("compaction")
    /\ InCall("vacuum") /\ maint["vacuum"].conflict
    /\ InCall("z_order") /\ maint["z_order"].failed

\* ------------------------------------------------------------------ C29
\* One pass of each scheduled task, in the order of the specification.
FourPasses ==
    Iteration("session_cleanup") \o Iteration("compaction")
        \o Iteration("z_order") \o Iteration("vacuum")

\* C29, as the specification states it: run_once makes one pass of each
\* of the four scheduled tasks, in order: the expired-session delete, compact
\* of every table, z_order of each table with a key set, vacuum of every
\* table; it returns ok even when steps fail.
C29_AsStated ==
    ~InCall("run_once") /\ maint["run_once"].calls # <<>> =>
        maint["run_once"].calls = FourPasses

\* ========================================================= store failures
\* The two actors while store calls may fail: one handle registers a user,
\* approves it, changes its password, logs in, reads and deletes it, another
\* logs events and asks for them.
FaultCalls ==
    {Register("c1", "alice", "alice@example.com", "StrongP@ss123", "pioneer"),
     ApproveUser("c1", "u1", "pioneer"),
     ChangePassword("c1", "u1", "StrongP@ss123", "NewP@ssw0rd!"),
     Login("c1", "alice", "StrongP@ss123", FALSE),
     GetUser("c1", "u1"),
     GdprDelete("c1", "u1")}
AuditFaultCalls ==
    {Log("c2", "u1", "alice"), Msg("get_recent_events", "c2"),
     [Msg("billing_summary", "c2") EXCEPT !.user_id = "u1"]}

NextFaults ==
    \/ \E m \in FaultCalls : client_send("c1", "auth", m)
    \/ \E m \in AuditFaultCalls : client_send("c2", "audit", m)
    \/ handle_register
    \/ append_users
    \/ handle_login
    \/ append_sessions
    \/ handle_approve
    \/ handle_change_password
    \/ rewrite_delete
    \/ handle_read
    \/ handle_gdpr_delete
    \/ gdpr_delete
    \/ gdpr_vacuum
    \/ handle_log
    \/ append_audit_log
    \/ audit_read
    \/ \E a \in Actors : store_fault(a)
    \/ \E a \in Actors : query_error(a)

SpecFaults == Init /\ [][NextFaults]_vars

\* ------------------------------------------------------------------ C21
\* A step in which a call of one of the kinds returns an error.
Errs(kinds) ==
    /\ last' # last
    /\ ~last'.ok
    /\ last'.err # "none"
    /\ last'.msg.kind \in kinds

\* C21, as the specification states it: when register, login, approve_user
\* or change_password returns an error, the users and sessions tables hold
\* the rows they held before the call; a failing append of approve_user or
\* change_password, after the delete has committed, does not leave the row of
\* the user missing.
C21_Step ==
    Errs({"register", "login", "approve_user", "change_password"}) =>
        /\ users' = users
        /\ sessions' = sessions
        /\ actor["auth"].pc = <<"append", "users">>
             /\ last'.msg.kind \in {"approve_user", "change_password"} =>
                \E row \in Range(users') : Selects(row, "user_id", last'.msg.user_id)

C21_AsStated == [][C21_Step]_vars

\* ------------------------------------------------------------------ C27
\* The loop of actor a takes the next message of its mailbox.
Dequeue(a) == NextFaults /\ mailbox'[a] = Tail(mailbox[a])

\* The handler of actor a returns while its store call has failed.
FailedReturn(a, kinds) ==
    /\ actor[a].conflict
    /\ actor[a].msg.kind \in kinds
    /\ actor'[a].pc = <<"idle", "none">>

ErrorReplied(a) ==
    /\ last'.msg = actor[a].msg
    /\ ~last'.ok
    /\ client'[actor[a].msg.from] = "idle"

\* The requests whose handlers pass a store error on, and all the requests
\* that have a reply.
Passing == {"register", "login", "logout", "approve_user", "reject_user",
            "change_password"}
Replying == Passing \cup {"gdpr_delete"}

C27_Alive ==
    \A a \in Actors :
        /\ actor[a].pc[1] # "stopped"
        /\ actor[a].pc = <<"idle", "none">> /\ mailbox[a] # <<>> => ENABLED Dequeue(a)

C27_Step ==
    \A a \in Actors : FailedReturn(a, Passing) => ErrorReplied(a)

GdprReturns ==
    /\ actor["auth"].msg.kind = "gdpr_delete"
    /\ actor["auth"].pc[1] = "vacuum"
    /\ actor'["auth"].pc = <<"idle", "none">>
    /\ last'.ok

\* C22, as the specification states it: when gdpr_delete(user_id) returns
\* ok, no table holds at head a row whose user id is user_id and
\* get_user(user_id) returns none; a failed delete on one of the tables
\* keeps gdpr_delete from reporting success.
C22_AsStated ==
    [][GdprReturns =>
        LET user_id == actor["auth"].msg.user_id
        IN  /\ \A i \in 1 .. Len(all_tables) :
                  ~\E row \in Rows(all_tables[i]) : Selects(row, "user_id", user_id)
            /\ handle_get_user(user_id) = NoUser]_vars

\* ======================================================= gdpr_delete_user
\* gdpr_delete_user on one of its tables, at the level of files.  The
\* tables are handled alike: a delete with  user_id = '{user_id}', later a
\* vacuum with retention 0, and Ok(()) at the end whatever the two returned.

\* The delete of the first loop starts, store.rs:549-551.
gdpr_delete_open(t, p) ==
    /\ task[t].pc = "idle"
    /\ task' = [task EXCEPT ![t] = [Idle EXCEPT !.pc = "opened", !.op = "delete",
                                                !.base = read_head, !.pred = p,
                                                !.gdpr = TRUE]]
    /\ UNCHANGED <<log, written, objects, now, modified>>
    /\ UNCHANGED actors

\* The store call in flight fails in the object store: the call returns Err.
io_error(t) ==
    /\ task[t].pc \in {"opened", "prepared"}
    /\ task[t].gdpr
    /\ task' = [task EXCEPT ![t] = Failed(task[t], "DeltaTable")]
    /\ UNCHANGED <<log, written, objects, now, modified>>
    /\ UNCHANGED actors

\* The delete has returned, Ok or Err (store.rs:552-562), and the vacuum of
\* the second loop starts (store.rs:566-567).  The vacuum reads the clock
\* after the deletes of all four tables have returned: the remove actions
\* the log holds are in the past by then.
gdpr_vacuum_open(t) ==
    LET r == task[t]
    IN  /\ r.pc = "done" /\ r.op = "delete" /\ r.gdpr
        /\ \A f \in Tombstones(read_head) : DeletionTimestamp(f) < now
        /\ task' = [task EXCEPT ![t] =
                        [Idle EXCEPT !.pc = "opened", !.op = "vacuum",
                                     !.base = read_head, !.retention = 0,
                                     !.dry_run = FALSE, !.pred = r.pred,
                                     !.gdpr = TRUE]]
        /\ UNCHANGED <<log, written, objects, now, modified>>
        /\ UNCHANGED actors

\* The vacuum has returned, Ok or Err (store.rs:567-570): gdpr_delete_user
\* returns Ok(()), store.rs:573-574.
gdpr_return(t) ==
    LET r == task[t]
    IN  /\ r.pc = "done" /\ r.op = "vacuum" /\ r.gdpr
        /\ task' = [task EXCEPT ![t] =
                        [Idle EXCEPT !.pc = "done", !.op = "gdpr_delete_user",
                                     !.pred = r.pred, !.ok = TRUE]]
        /\ UNCHANGED <<log, written, objects, now, modified>>
        /\ UNCHANGED actors

\* The table with its single writer, which appends, leaves appends
\* unfinished and calls gdpr_delete_user, next to a task that reads old
\* versions, while the clock advances.
NextGdpr ==
    \/ \E t \in Owner, b \in Batches : append_open(t, b)
    \/ \E t \in Owner : append_write(t)
    \/ \E t \in Owner : commit(t)
    \/ \E t \in Owner, p \in Preds : gdpr_delete_open(t, p)
    \/ \E t \in Owner : delete_execute(t)
    \/ \E t \in Owner : io_error(t)
    \/ \E t \in Owner : gdpr_vacuum_open(t)
    \/ \E t \in Owner : vacuum_execute(t)
    \/ \E t \in Owner : gdpr_return(t)
    \/ \E t \in Reader, V \in 0 .. read_head : read_version_open(t, V)
    \/ \E t \in Reader : read_collect(t)
    \/ Tick
    \/ \E t \in Tasks : Cancel(t)
    \/ \E t \in Tasks : ~task[t].gdpr /\ Return(t)

SpecGdpr == Init /\ [][NextGdpr]_vars

\* ------------------------------------------------------------------ C23
\* gdpr_delete_user has returned Ok to task t for the users selected by p.
Purged(t, p) ==
    task[t].pc = "done" /\ task[t].op = "gdpr_delete_user" /\ task[t].pred = p

\* C23, as the specification states it: after gdpr_delete(user_id) has
\* returned ok no data file left in the table directory holds a row of the
\* user, and a time-travel read issued then fails or returns no row of the
\* user.
C23_AsStated ==
    \A t \in Tasks, p \in Preds :
        Purged(t, p) =>
            /\ \A f \in objects : Count(Matching(written[f], p)) = 0
            /\ \A V \in DOMAIN log :
                   LiveFiles(V) \subseteq objects =>
                       Count(Matching(RowsAt(V), p)) = 0

\* ============================================================ audit actor
\* Two cloned AuditHandles log events of one user and ask for the user's
\* billing summary, while appends may fail.
LogEvent(c, user_id, username, action) ==
    [Log(c, user_id, username) EXCEPT !.action = action]
BillingSummary(c, user_id, start_date, end_date) ==
    [Msg("billing_summary", c) EXCEPT !.user_id = user_id,
                                      !.start_date = start_date,
                                      !.end_date = end_date]
Events(c) ==
    {LogEvent(c, "u1", "alice", "QueryExecuted"), LogEvent(c, "u1", "alice", "Login")}
BillingCalls(c) ==
    {BillingSummary(c, "u1", 0, 0), BillingSummary(c, "u2", 0, 0),
     BillingSummary(c, "u1", ClockStep, ClockStep)}

NextAudit ==
    \/ \E c \in Clients : \E m \in Events(c) : log_call(c, m)
    \/ \E c \in Clients : log_returns(c)
    \/ \E m \in BillingCalls("c1") : client_send("c1", "audit", m)
    \/ handle_log
    \/ append_audit_log
    \/ audit_read
    \/ store_fault("audit")

SpecAudit == Init /\ [][NextAudit]_vars

\* ------------------------------------------------------------------ C24
\* C24, as the specification states it: AuditHandle::log returns without
\* waiting for the actor, in every state of the actor, also when the actor is
\* busy with an append and its mailbox is full: no caller is ever held in
\* the call.
C24_AsStated == \A c \in Clients : client[c] # "sending"

\* ------------------------------------------------------------------ C25
\* The audit actor returns from the handler of a log message.
LogHandled ==
    /\ actor["audit"].pc = <<"append", "audit_log">>
    /\ actor'["audit"].pc = <<"idle", "none">>

\* In this specification only the audit actor commits to audit_log: the
\* k-th row of the table was appended by the k-th commit after the creation.
CommitVersion(k) == k

C25_Step ==
    LogHandled =>
        IF actor["audit"].conflict
        THEN audit' = audit
        ELSE /\ Len(audit') = Len(audit) + 1
             /\ audit'[Len(audit')].seq = actor["audit"].msg.seq
             /\ SubSeq(audit', 1, Len(audit)) = audit

C25_Ordered ==
    \A i, j \in 1 .. Len(audit) :
        audit[i].seq < audit[j].seq => CommitVersion(i) < CommitVersion(j)

C25_Once ==
    \A i, j \in 1 .. Len(audit) : audit[i].seq = audit[j].seq => i = j

\* C25, amended: a log message the audit actor dequeues results in one
\* commit that appends one row to audit_log when its append succeeds, and in
\* none when the append fails; of two log calls enqueued one after the other
\* whose rows are in the table, the earlier one is in the smaller version.
C25_InOrder == [](C25_Ordered /\ C25_Once) /\ [][C25_Step]_vars

\* Three calls were enqueued; the append of the second failed, the rows of
\* the first and the third are in the table.
C25_Witness ==
    /\ Len(audit) = 2
    /\ audit[1].seq = 1
    /\ audit[2].seq = 3

\* C25, as the specification states it: every log message dequeued results
\* in exactly one commit that appends exactly one row.
C25_AsStated == [][LogHandled => Len(audit') = Len(audit) + 1]_vars

\* ------------------------------------------------------------------ C26
\* The events of the user that have been processed and whose date is in the
\* range of a billing_summary request.
Covered(m) ==
    SelectSeq(audit, LAMBDA row : /\ row.user_id = m.user_id
                                  /\ row.date_partition >= m.start_date
                                  /\ row.date_partition <= m.end_date)
BillableIn(events) ==
    Cardinality({i \in 1 .. Len(events) :
                    \E action \in ActionType :
                        is_billable(action) /\ as_str(action) = events[i].action})

BillingReplied ==
    /\ last' # last
    /\ last'.msg.kind = "billing_summary"

\* C26, as the specification states it: billing_summary over a range that
\* covers processed events of the user counts them: total_actions includes
\* them, and an event is added to a per-kind tally exactly when its action
\* is billable.
C26_AsStated ==
    [][BillingReplied /\ Covered(last'.msg) # <<>> =>
          /\ last'.ok
          /\ last'.rows # <<>>
          /\ last'.rows[1].total_actions >= Len(Covered(last'.msg))
          /\ last'.rows[1].total_queries + last'.rows[1].total_uploads
               + last'.rows[1].total_exports + last'.rows[1].total_backtests
               + last'.rows[1].total_live_trades = BillableIn(Covered(last'.msg))]_vars

\* ============================================================ retry budget
\* A commit loop gives up: the task had prepared its commit and the call
\* ends with an error.
CommitGivesUp(t) ==
    /\ task[t].pc = "prepared"
    /\ task'[t].pc = "done"
    /\ ~task'[t].ok

\* The last attempt of the budget finds its version taken (the call is not
\* dropped).
LastAttemptLost(t) ==
    /\ task[t].pc = "prepared"
    /\ task[t].tries + 1 = MaxCommitAttempts
    /\ task[t].base + 1 \in DOMAIN log
    /\ task'[t] # task[t]
    /\ task'[t].pc # "idle"

C31_Budget ==
    \A t \in Tasks :
        /\ task[t].tries <= MaxCommitAttempts
        /\ task[t].pc = "prepared" => task[t].tries < MaxCommitAttempts

C31_Step ==
    \A t \in Tasks :
        /\ LastAttemptLost(t) => CommitGivesUp(t)
        /\ CommitGivesUp(t) =>
              /\ task'[t].err = "DeltaTable"
              /\ log' = log
              /\ LiveFiles(read_head)' = LiveFiles(read_head)
              /\ \A v \in DOMAIN log' : log'[v].adds \cap task[t].adds = {}

Succeeds(t) ==
    /\ task[t].op \in Mutating
    /\ task[t].pc \in {"opened", "prepared"}
    /\ task'[t].pc = "done"
    /\ task'[t].ok

\* The step publishes exactly the version after the head.
AdvancesByOne ==
    /\ DOMAIN log' = DOMAIN log \cup {read_head + 1}
    /\ \A v \in DOMAIN log : log'[v] = log[v]

\* What the call found to change in the snapshot it opened.
NothingToChange(r) ==
    IF r.op = "delete" THEN Candidates(r.base, r.pred) = {}
    ELSE OptimizeInput(r.op, r.base) = {}

C32_Step ==
    \A t \in Tasks :
        Succeeds(t) =>
            IF task[t].pc = "prepared"
            THEN /\ AdvancesByOne
                 /\ task'[t].version = read_head + 1
                 /\ log'[read_head + 1].op = LogOp(task[t].op)
            ELSE /\ task[t].op # "append"
                 /\ NothingToChange(task[t])
                 /\ log' = log
                 /\ task'[t].version = task[t].base
                 /\ task'[t].count = 0

C32_NoEmptyCommit ==
    \A v \in DOMAIN log : v > 0 => log[v].adds \cup log[v].removes # {}

\* C32, amended: every successful append, and every successful delete,
\* compact or z_order that finds something to change, advances the table
\* head by exactly one version and returns that version; a delete whose
\* predicate matches no row and a compact or z_order with nothing to rewrite
\* commit nothing and return the version of the snapshot they opened.
C32_OneVersion == []C32_NoEmptyCommit /\ [][C32_Step]_vars

\* A delete that matched no row has returned after another commit: the head
\* is where it was when the delete opened the table.
C32_Witness ==
    \E t \in Tasks :
        /\ DoneOk(t, "delete")
        /\ task[t].count = 0
        /\ task[t].version = read_head
        /\ read_head > 0

\* C32, as the specification states it: every successful mutating call
\* advances the head by exactly one version and returns it.
C32_AsStated ==
    [][\A t \in Tasks :
          Succeeds(t) => AdvancesByOne /\ task'[t].version = read_head + 1]_vars

\* ===================================================== vacuum and the head
\* The commit that added a file of the log.
AddedAt(f) == CHOOSE v \in DOMAIN log : f \in log[v].adds

\* What a scan of the head returns: the rows of the file-set, or an error
\* when a file of it is gone.
ScanResult ==
    IF LiveFiles(read_head) \subseteq objects
    THEN [ok |-> TRUE, rows |-> RowsAt(read_head)]
    ELSE [ok |-> FALSE, rows |-> EmptyRows]

\* C33: for every retention, 0 included, vacuum never deletes a file of the
\* live file-set at the head, also when the commit that added the file is
\* older than the retention horizon, and a scan returns the same rows before
\* and after the vacuum: in every state, the files a returned vacuum selected
\* are outside the file-set at the head, and a scan succeeds with the rows
\* of the head.
C33_VacuumKeepsLive ==
    /\ \A t \in Tasks :
          DoneOk(t, "vacuum") => task[t].removes \cap LiveFiles(read_head) = {}
    /\ ScanResult = [ok |-> TRUE, rows |-> RowsAt(read_head)]

\* A vacuum has returned after deleting a file, while a file added before
\* the vacuum's horizon is in the file-set at the head and in the directory.
C33_Witness ==
    \E t \in Tasks :
        /\ DoneOk(t, "vacuum")
        /\ ~task[t].dry_run
        /\ task[t].removes # {}
        /\ task[t].removes \cap objects = {}
        /\ \E f \in LiveFiles(read_head) :
              /\ log[AddedAt(f)].ts < now - task[t].retention
              /\ f \in objects

\* ========================================================= file immutability
\* C34: across the whole log, under any interleaving of concurrent deletes,
\* compacts and z_orders, each file id occurs in the adds of at most one
\* commit and in the removes of at most one commit, and a file is removed
\* only by a commit with a greater version than the commit that added it.
C34_FileImmutability ==
    /\ \A v, w \in DOMAIN log :
          v # w => /\ log[v].adds \cap log[w].adds = {}
                   /\ log[v].removes \cap log[w].removes = {}
    /\ \A v \in DOMAIN log :
          \A f \in log[v].removes :
              \E w \in DOMAIN log : w < v /\ f \in log[w].adds

\* A delete and an optimize raced for the same file: one is in the log, the
\* other ended in the conflict before using up its attempts.
C34_Witness ==
    \E t \in Tasks :
        /\ task[t].pc = "done"
        /\ ~task[t].ok
        /\ task[t].op \in {"delete", "compact", "z_order"}
        /\ task[t].tries = 0
        /\ \E v \in DOMAIN log :
              /\ log[v].removes # {}
              /\ LogOp(task[t].op) # log[v].op

\* ======================================================= commit timestamps
\* C35, as the specification states it: the commit timestamps of a table are
\* strictly increasing with the version in every reachable state; a commit
\* made when the clock is not after the previous commit's timestamp records
\* that timestamp plus one.
C35_AsStated ==
    \A v \in DOMAIN log : v > 0 => log[v].ts > log[v - 1].ts

\* ==================================================== user row state machine
\* The auth actor takes a message of the kind from its mailbox and starts
\* the handler's first store write.
Starts(kind) ==
    /\ actor["auth"].pc = <<"idle", "none">>
    /\ actor'["auth"].pc # <<"idle", "none">>
    /\ actor'["auth"].msg.kind = kind

\* The append of a handler of the kind adds its row to users.
Inserts(kind) ==
    /\ actor["auth"].pc = <<"append", "users">>
    /\ actor["auth"].msg.kind = kind
    /\ Len(users') = Len(users) + 1

C36_Step ==
    /\ Inserts("register") => users'[Len(users')].role = "pending"
    /\ Inserts("approve_user") => users'[Len(users')].role # "pending"
    /\ Starts("approve_user") =>
          handle_get_user(actor'["auth"].msg.user_id).role = "pending"
    /\ Starts("change_password") =>
          LET user == handle_get_user(actor'["auth"].msg.user_id)
          IN  /\ actor'["auth"].row.role = user.role
              /\ actor'["auth"].row.tier = user.tier
    /\ (Starts("login") \/ actor["auth"].msg.kind = "login") => users' = users

\* C36, as the specification states it: a user row follows pending ->
\* registered | trader | admin: register creates the row with role pending,
\* approve_user acts only on a user whose role is pending and never writes
\* pending, login leaves the row alone and change_password writes the row
\* back with the role and tier it had.
C36_AsStated == [][C36_Step]_vars

\* ============================================= delete against a concurrent write
\* Task t has committed a delete and task o has returned from an append, a
\* compact or a z_order.
DeleteAndOther(t, o) ==
    /\ t # o
    /\ DoneOk(t, "delete")
    /\ task[t].count > 0
    /\ task[o].pc = "done"
    /\ task[o].op \in {"append", "compact", "z_order"}

\* The finished call of task o committed an entry (a compact with nothing to
\* merge returns without one).
Wrote(o) == task[o].ok /\ task[o].adds # {}

C37_Rows(t, o) ==
    LET vd == task[t].version
        p == task[t].pred
        kept == Kept(RowsAt(vd - 1), p)
    IN  /\ RowsAt(vd) = kept
        /\ Count(Matching(RowsAt(vd), p)) = 0
        /\ (Wrote(o) /\ task[o].version = vd + 1 /\ read_head = vd + 1) =>
              RowsAt(read_head) = IF task[o].op = "append"
                                  THEN Plus(kept, task[o].batch)
                                  ELSE kept
        /\ (Wrote(o) /\ task[o].version = vd - 1) =>
              RowsAt(vd - 1) = IF task[o].op = "append"
                               THEN Plus(RowsAt(vd - 2), task[o].batch)
                               ELSE RowsAt(vd - 2)
        /\ ~task[o].ok => \A v \in DOMAIN log : log[v].adds \cap task[o].adds = {}

\* C37: when a delete that commits runs concurrently with a compact, a
\* z_order or an append on the table, then after both have returned the
\* table holds no row that satisfied the predicate at the delete's commit
\* point and holds every other row, the rows appended or rewritten
\* concurrently included, exactly once.
C37_DeleteRace ==
    \A t, o \in Tasks : DeleteAndOther(t, o) => C37_Rows(t, o)

\* A delete lost the head to a concurrent append, tried again and committed
\* right after it; both calls have returned.
C37_Witness ==
    \E t, o \in Tasks :
        /\ DeleteAndOther(t, o)
        /\ task[t].tries > 0
        /\ DoneOk(o, "append")
        /\ task[o].version = task[t].version - 1

\* ================================================ sessions under maintenance
\* One handle registers alice, logs in with and without remember_me and
\* verifies the tokens it got; nobody logs out or deletes the user.  The
\* four tasks of the scheduler tick, and the clock advances.
MaintainedCalls ==
    {Register("c1", "alice", "alice@example.com", "StrongP@ss123", "pioneer")}
    \cup {Login("c1", "alice", "StrongP@ss123", remember_me) :
            remember_me \in {r \in BOOLEAN : Cardinality(seen.live) < MaxSessions}}
    \cup {VerifyToken("c1", token) : token \in seen.live}

NextMaintained ==
    \/ \E m \in MaintainedCalls : client_send("c1", "auth", m)
    \/ handle_register
    \/ append_users
    \/ handle_login
    \/ append_sessions
    \/ handle_verify_token
    \/ \E p \in MaintTasks : maint_tick(p)
    \/ session_cleanup
    \/ \E p \in MaintTasks : maint_optimize(p)
    \/ \E p \in MaintTasks : maint_vacuum(p)
    \/ Tick

SpecMaintained == Init /\ [][NextMaintained]_vars

\* A token login returned whose expiry lies in the future.
Valid(token) == token \in seen.live /\ token.exp > now

\* C38: background maintenance never invalidates a valid session: for a
\* token returned by login whose expiry lies in the future, with no logout
\* and no gdpr_delete issued, verify_token returns the user after any number
\* and interleaving of session-cleanup, compaction, z-order and vacuum
\* cycles, a cleanup that races with the login's session append included:
\* in every state the session row is there and verify_token gives the user
\* of the token, and the last reply to a verify_token of a valid token is
\* that user.
C38_SessionSurvives ==
    /\ \A token \in seen.live :
          Valid(token) =>
              /\ session_active(token)
              /\ verify_token(token).user_id = token.sub
              /\ verify_token(token).username = token.username
    /\ (last.msg.kind = "verify_token" /\ Valid(last.msg.token)) =>
          /\ last.ok
          /\ last.user.user_id = last.msg.token.sub

\* verify_token has returned the user for a valid token after the cleanup
\* deleted the expired session of an earlier login, with a task's store call
\* in flight.
C38_Witness ==
    /\ last.msg.kind = "verify_token"
    /\ last.ok
    /\ Valid(last.msg.token)
    /\ \E token \in seen.live : ~session_active(token)
    /\ \E p \in MaintTasks : maint[p].pc # <<"idle", "none">>

\* ==================================================== stopping the scheduler
\* One handle registers alice and logs in once; the four tasks of the
\* scheduler tick and make their store calls, the clock advances, and the
\* scheduler is stopped or dropped at any moment.
StoppedCalls ==
    {Register("c1", "alice", "alice@example.com", "StrongP@ss123", "pioneer")}
    \cup {Login("c1", "alice", "StrongP@ss123", FALSE) : x \in {y \in {0} : seen.live = {}}}

NextStopped ==
    \/ \E m \in StoppedCalls : client_send("c1", "auth", m)
    \/ handle_register
    \/ append_users
    \/ handle_login
    \/ append_sessions
    \/ \E p \in MaintTasks : maint_tick(p)
    \/ session_cleanup
    \/ \E p \in MaintTasks : maint_optimize(p)
    \/ \E p \in MaintTasks : maint_vacuum(p)
    \/ Tick
    \/ stop

SpecStopped == Init /\ [][NextStopped]_vars

\* stop has returned: abort() was called on every handle.
StopReturned == \A p \in MaintTasks : maint[p].abort # "none"

\* No task of the scheduler is polled (a poll starts a store call or lets
\* the call in flight take effect, and ends with the task idle, in its next
\* call or dropped), and no row of a session is removed.
SchedulerQuiet ==
    /\ \A p \in MaintTasks : /\ maint'[p].pc = maint[p].pc
                              /\ maint'[p].abort = maint[p].abort
    /\ sessions \subseteq sessions'

\* C40: a store operation cancelled at an await point, the abort of an
\* in-flight cleanup delete, compact, z_order or vacuum by
\* MaintenanceScheduler::stop or drop included, leaves its complete commit
\* or nothing; and after stop returns, no scheduler task issues any further
\* store operation: once stop has returned no task starts a store call and
\* no call of a task takes effect on a table.
C40_AsStated == [][StopReturned => SchedulerQuiet]_vars

\* ================================================ concurrent construction
\* An ensure_table of DeltaStore::new has returned.
EnsureReturned(t) == task[t].pc = "done" /\ task[t].op = "ensure_table"

\* The log holds one creation commit, at version 0, and every later commit
\* keeps the files of the version before it.
OneCreation ==
    TableExists =>
        /\ log[0] = CreateEntry
        /\ \A v \in DOMAIN log \ {0} :
              /\ log[v] # CreateEntry
              /\ LiveFiles(v - 1) \subseteq LiveFiles(v)

\* C39: when two DeltaStore::new calls run ensure_table for the same
\* missing table concurrently, both return success, the table ends with
\* exactly one creation commit at version 0, and no rows or commits written
\* by either store afterwards are lost: every ensure_table that has returned
\* returned success, and the log holds one creation commit and loses no
\* file.
C39_AsStated ==
    /\ \A t \in Tasks : EnsureReturned(t) => task[t].ok
    /\ OneCreation
====
